---- MODULE Spec2Model ----
(***************************************************************************)
(* The stream supervisor of app.py: the supervisor worker thread           *)
(* (start_supervised), the request handlers that start, stop and disturb   *)
(* it (toggle, set_category, toggle_shuffle, skip_video, destinations),    *)
(* the shared StreamState record, the module globals stop_requested,       *)
(* ffmpeg_process and ffmpeg_thread, and the external ffmpeg processes.    *)
(*                                                                         *)
(* Threads interleave at the granularity of the shared reads and writes:   *)
(* every action is one step of one thread between two points where         *)
(* another thread can observe or change what it uses.                      *)
(***************************************************************************)
EXTENDS Integers, Sequences, FiniteSets, TLC

(***************************************************************************)
(* Bounds of the model.                                                    *)
(***************************************************************************)
\* supervisor worker threads created over a run of the application
MaxWorkers == 2
\* operating-system process slots for ffmpeg instances
MaxProcs == 2
\* MAX_RESTARTS is read from the environment at import.  The restart budget
\* configured where requests and supervisors interleave freely (Spec) ...
Budget == 2
\* ... and where one client starts one stream after the other (SeqSpec):
\* large enough for the delay to reach its ceiling
SeqBudget == 12

(***************************************************************************)
(* Program constants.                                                      *)
(***************************************************************************)
\* backoff = 2
BACKOFF_FLOOR == 2
\* backoff = min(backoff * 1.5, 60)
BACKOFF_CEILING == 60
\* ffmpeg_thread.join(timeout=5)
JOIN_TIMEOUT == 5

\* Delays are dyadic rationals (2 * 1.5^k below the ceiling, k <= 8): they
\* are kept exactly, as integers in units of 1/Scale seconds.
Scale == 2^8

\* the request-handling contexts of the web server
Handlers == {"h1"}

None == 0

VARIABLES
    MAX_RESTARTS,     \* MAX_RESTARTS = int(os.getenv('MAX_RESTARTS', '10'))
    stop_requested,   \* global stop_requested
    ffmpeg_process,   \* global ffmpeg_process: None or a process slot
    ffmpeg_thread,    \* global ffmpeg_thread: None or a worker index
    stream_state,     \* the StreamState singleton
    procs,            \* the ffmpeg processes of the operating system
    workers,          \* the supervisor worker threads created so far
    handlers,         \* the request contexts: position in their handler
    files,            \* the playlist manifest files on disk
    lock,             \* StreamState._lock: the thread that holds it, if any
    callers,          \* the threads inside a StreamState method
    snapshot,         \* what the last get_status saw under the lock
    DEFAULTS,         \* the remembered form values
    form_settings,    \* the persisted form values ('stream:form_settings')
    builder,          \* a start request inside toggle, line by line
    log_buffer,       \* log_buffer = deque(maxlen=MAX_LOG_LINES)
    pipe,             \* the process's output not yet read by the worker
    emitted,          \* how many lines the process has written so far
    tail,             \* what the last request to /logs returned
    request,          \* a call of a validator or of build_cmd: its arguments
    response,         \* what that call returned
    reader,           \* a supervisor in its read loop: locals, last line
    playlist_cleanup_thread,  \* the thread of cleanup_playlist_files
    clock             \* time.time(), and the uptime the last status reported

\* what the statements of the StreamState methods are followed with
lockvars == <<lock, callers, snapshot>>

\* what the start branch of toggle is followed with, line by line
buildvars == <<DEFAULTS, form_settings, builder>>

\* what the appends to the log buffer are followed with
logvars == <<log_buffer, pipe, emitted, tail>>

\* what a single call of a validator or of build_cmd is followed with
callvars == <<request, response>>

\* what the read loop of the supervisor is followed with, line by line
readvars == <<reader>>

\* what the periodic cleanup of manifests is followed with
sweepvars == <<playlist_cleanup_thread>>

\* what the passing of time is followed with
timevars == <<clock>>

\* the variables the supervisor and the request handlers leave alone
auxvars == <<lockvars, buildvars, logvars, callvars, readvars, sweepvars, timevars>>

vars == <<MAX_RESTARTS, stop_requested, ffmpeg_process, ffmpeg_thread, stream_state,
          procs, workers, handlers, files, auxvars>>


(***************************************************************************)
(* Values.                                                                 *)
(***************************************************************************)
\* Popen.returncode: 0, an error code, or minus the signal that ended it
RC_CLEAN == 0
RC_ERROR == 1
RC_SIGTERM == -15
RC_SIGKILL == -9

FreeSlot == [st |-> "free", rc |-> RC_CLEAN]
AliveProc == [st |-> "alive", rc |-> RC_CLEAN]
HungProc == [st |-> "hung", rc |-> RC_CLEAN]
ExitedProc(rc) == [st |-> "exited", rc |-> rc]

Pids == 1..MaxProcs

\* the destination lists a client posts to /destinations
Dest(enabled, key) == [enabled |-> enabled, key |-> key, url |-> "rtmp://a/"]
DestChoices == { <<>>, <<Dest(TRUE, "k1")>> }

\* what the start branch of toggle reads from the request and the file
\* system: whether the form passes the validators, and whether build_cmd
\* returns a command or raises
StartInputs == [valid : BOOLEAN, build : BOOLEAN]

(***************************************************************************)
(* StreamState: the methods, as functions from the record to the record.   *)
(***************************************************************************)
\* time.time(): the clock stands still unless a specification lets it tick
Now == clock.now

StreamStateInit ==
    [running |-> FALSE, restarts |-> 0, start_time |-> None,
     last_error |-> "None", process_id |-> None, uptime |-> 0,
     destinations |-> <<>>,
     current_playlist_file |-> None, old_playlist_files |-> {},
     shuffle_mode |-> TRUE, playlist |-> <<>>]

\* lines 113-119; time.time() is Now at every call of the operator
set_running(ss, running) ==
    [ss EXCEPT !.running = running,
               !.uptime = IF ~running /\ ss.start_time # None
                          THEN @ + (Now - ss.start_time) ELSE @,
               !.start_time = IF running THEN Now ELSE None]

increment_restarts(ss) == [ss EXCEPT !.restarts = @ + 1]

set_error(ss, error) == [ss EXCEPT !.last_error = error]

reset(ss) ==
    [ss EXCEPT !.running = FALSE, !.start_time = None,
               !.last_error = "None", !.process_id = None,
               !.current_playlist_file = None, !.old_playlist_files = {}]

\* lines 137-151: the files reset removes: the current manifest and all the
\* superseded ones
reset_removes(ss) ==
    (IF ss.current_playlist_file # None
     THEN {ss.current_playlist_file} ELSE {}) \cup ss.old_playlist_files

\* tempfile.mkstemp: a path that names no file yet
mkstemp(fs) == CHOOSE n \in 1..(Cardinality(fs) + 1) : n \notin fs

\* the previous manifest, if it is on disk, is queued for removal
set_playlist_file(ss, playlist_file, fs) ==
    [ss EXCEPT
       !.old_playlist_files =
           IF ss.current_playlist_file # None /\ ss.current_playlist_file \in fs
           THEN @ \cup {ss.current_playlist_file} ELSE @,
       !.current_playlist_file = playlist_file]

\* the queue is emptied; its files are removed from the disk
cleanup_old_playlist_files(ss) == [ss EXCEPT !.old_playlist_files = {}]

\* create_playlist_file, lines 456-518: the new manifest is written and
\* becomes the current one, then the queued manifests are swept at once
create_playlist_file(ss, playlist_path, fs) ==
    LET set == set_playlist_file(ss, playlist_path, fs \cup {playlist_path}) IN
    [stream_state |-> cleanup_old_playlist_files(set),
     files |-> (fs \cup {playlist_path}) \ set.old_playlist_files]

set_destinations(ss, d) == [ss EXCEPT !.destinations = d]

(***************************************************************************)
(* The operating system's view of the ffmpeg processes.                    *)
(***************************************************************************)
IsLive(p) == procs[p].st \in {"alive", "hung"}

\* Popen.poll() is None, on the object the global refers to
PollIsNone == ffmpeg_process # None /\ IsLive(ffmpeg_process)

LiveProcs == {p \in Pids : IsLive(p)}

\* the processes after SIGTERM/SIGKILL has ended process p
Ended(p, rc) == [procs EXCEPT ![p] = ExitedProc(rc)]

\* terminate(), wait(timeout=3), and kill() when the wait times out: a
\* process that still reacts ends on SIGTERM, a hung one on SIGKILL
terminate_wait_kill ==
    IF PollIsNone
    THEN Ended(ffmpeg_process,
               IF procs[ffmpeg_process].st = "hung"
               THEN RC_SIGKILL ELSE RC_SIGTERM)
    ELSE procs

\* Popen.terminate() alone (no escalation): a hung process may ignore it
terminate_outcomes ==
    IF ~PollIsNone THEN {procs}
    ELSE IF procs[ffmpeg_process].st = "hung"
         THEN {procs, Ended(ffmpeg_process, RC_SIGTERM)}
         ELSE {Ended(ffmpeg_process, RC_SIGTERM)}

\* The slot of a new process.  The Popen object the global referred to is
\* dropped by the assignment: an exited one is gone with it, a live one
\* stays in the process table with no reference left to it.
Reusable(p) ==
    \/ procs[p].st = "free"
    \/ p = ffmpeg_process /\ procs[p].st = "exited"

NewPid == CHOOSE p \in Pids : Reusable(p) /\ \A q \in Pids : Reusable(q) => p <= q

(***************************************************************************)
(* Init: the module globals and StreamState() after import.                *)
(***************************************************************************)
WorkerInit ==
    [pc |-> "loop", restarts |-> 0, backoff |-> BACKOFF_FLOOR * Scale,
     rc |-> RC_CLEAN]

\* a worker whose function has returned: its locals are gone
WorkerDone ==
    [pc |-> "done", restarts |-> 0, backoff |-> BACKOFF_FLOOR * Scale,
     rc |-> RC_CLEAN]

HandlerIdle(resp) == [pc |-> "idle", resp |-> resp]

\* the threads that call StreamState methods at the same time
Callers == {"c1", "c2"}

\* a thread outside every StreamState method
CallerIdle ==
    [op |-> "idle", running |-> FALSE, line |-> 0,
     playlist_file |-> None, files_to_cleanup |-> {}]

\* no get_status has returned yet
NoSnapshot == [taken |-> FALSE, running |-> FALSE, start_time |-> None]

\* self._lock held by no thread
Unlocked == "unlocked"

LockInit ==
    /\ lock = Unlocked
    /\ callers = [t \in Callers |-> CallerIdle]
    /\ snapshot = NoSnapshot

\* the forms a client posts to /toggle: the initial defaults, another valid
\* form, and a form whose bitrate does not validate
Forms == {"default", "good", "bad"}

\* no start request is being handled, none has been answered
BuilderIdle ==
    [line |-> 0, form |-> "default", before |-> "default", enabled |-> <<>>,
     videos_874 |-> <<>>, shuffle_582 |-> FALSE, videos_452 |-> <<>>,
     shuffle_464 |-> FALSE, shuffle_932 |-> FALSE, videos_933 |-> <<>>,
     resp |-> "none"]

BuildInit ==
    /\ DEFAULTS = "default"
    /\ form_settings = "default"
    /\ builder = BuilderIdle

\* an empty buffer, a process that has written nothing, no reader yet
LogInit ==
    /\ log_buffer = <<>>
    /\ pipe = <<>>
    /\ emitted = 0
    /\ tail = <<>>

\* no function is called: no arguments
NoRequest ==
    [fn |-> "none", bitrate |-> <<>>, selected_video |-> <<>>,
     exists |-> FALSE, shuffle_mode |-> FALSE, listing |-> <<>>,
     repeat |-> 1, readable |-> {}, destinations |-> <<>>,
     input_type |-> "file", srt_url |-> "", encoder |-> "libx264",
     preset |-> "medium", device |-> TRUE, store |-> "present"]

\* nothing has returned
NoResponse ==
    [fn |-> "none", ok |-> FALSE, input |-> "none", video |-> <<>>,
     manifest |-> <<>>, created |-> 0, removed |-> FALSE, preset |-> "none",
     outputs |-> <<>>, count |-> 0, memory |-> FALSE, stop |-> FALSE]

CallInit ==
    /\ request = NoRequest
    /\ response = NoResponse

\* no line read yet
NoLine == {"<none>"}

\* lines 624-630: the locals of start_supervised; no process yet
ReaderInit ==
    [pc |-> "loop", restarts |-> 0, transient_error_count |-> 0,
     alive |-> FALSE, instance_transients |-> 0, line |-> NoLine]

ReadInit == reader = ReaderInit

\* lines 304-305: the thread is started at import, before its loop test
SweepInit == playlist_cleanup_thread = "test"

\* line 100: uptime = 0, so nothing above 0 has been reported
TimeInit == clock = [now |-> 1, current_uptime |-> 0]

AuxInit ==
    /\ LockInit /\ BuildInit /\ LogInit /\ CallInit /\ ReadInit /\ SweepInit
    /\ TimeInit

\* the globals of the module after import (lines 65-67, 212)
ProgramInit(budget) ==
    /\ MAX_RESTARTS = budget
    /\ stop_requested = FALSE
    /\ ffmpeg_process = None
    /\ ffmpeg_thread = None
    /\ \E d \in DestChoices :
         stream_state = set_destinations(StreamStateInit, d)
    /\ procs = [p \in Pids |-> FreeSlot]
    /\ workers = <<>>
    /\ handlers = [h \in Handlers |-> HandlerIdle("none")]
    /\ files = {}

InitWith(budget) == AuxInit /\ ProgramInit(budget)

Init == InitWith(Budget)

\* the threads that can exist, and those created so far
WorkerIds == 1..MaxWorkers

Wids == 1..Len(workers)

is_alive(w) == workers[w].pc # "done"

WorkerAt(w, pc) == w \in Wids /\ workers[w].pc = pc

SetWorker(w, rec) == workers' = [workers EXCEPT ![w] = rec]

Goto(w, pc) == SetWorker(w, [workers[w] EXCEPT !.pc = pc])

(***************************************************************************)
(* start_supervised: the supervisor worker.                                *)
(***************************************************************************)
\* the growth of the delay without its ceiling
grow_backoff_uncapped(backoff) == (backoff * 3) \div 2

\* backoff = min(backoff * 1.5, 60)
grow_backoff(backoff) ==
    IF (backoff * 3) \div 2 < BACKOFF_CEILING * Scale
    THEN (backoff * 3) \div 2
    ELSE BACKOFF_CEILING * Scale

\* while restarts < MAX_RESTARTS and not stop_requested:
loop_condition(restarts, max, stop) == restarts < max /\ ~stop

\* lines 638-639: the loop test and set_running(True)
SupLoop(w) ==
    /\ WorkerAt(w, "loop")
    /\ IF loop_condition(workers[w].restarts, MAX_RESTARTS, stop_requested)
       THEN /\ stream_state' = set_running(stream_state, TRUE)
            /\ Goto(w, "spawn")
       ELSE /\ Goto(w, "exit")
            /\ UNCHANGED stream_state
    /\ UNCHANGED <<auxvars, files, MAX_RESTARTS, stop_requested, ffmpeg_process, ffmpeg_thread, procs, handlers>>

\* lines 650-663: Popen succeeds; the global and process_id are assigned
SupSpawn(w) ==
    /\ WorkerAt(w, "spawn")
    /\ \E p \in Pids : Reusable(p)
    /\ LET p == NewPid IN
       /\ procs' = [q \in Pids |->
                      IF q = p THEN AliveProc
                      ELSE IF Reusable(q) THEN FreeSlot ELSE procs[q]]
       /\ ffmpeg_process' = p
       /\ stream_state' = [stream_state EXCEPT !.process_id = p]
    /\ Goto(w, "readchk")
    /\ UNCHANGED <<auxvars, files, MAX_RESTARTS, stop_requested, ffmpeg_thread, handlers>>

\* the restart taken after an exception: lines 769-776
restart_after_exception(wk, max) ==
    LET n == wk.restarts + 1 IN
    [wk EXCEPT !.restarts = n,
               !.pc = IF n < max THEN "sleep" ELSE "loop"]

\* lines 650, 762-776: Popen raises; the handler of the outer try runs
SupSpawnFails(w) ==
    /\ WorkerAt(w, "spawn")
    /\ stream_state' = set_error(set_running(stream_state, FALSE), "exception")
    /\ IF stop_requested
       THEN Goto(w, "exit")
       ELSE SetWorker(w, restart_after_exception(workers[w], MAX_RESTARTS))
    /\ UNCHANGED <<auxvars, files, MAX_RESTARTS, stop_requested, ffmpeg_process, ffmpeg_thread, procs, handlers>>

\* line 667: while not stop_requested
SupReadCheck(w) ==
    /\ WorkerAt(w, "readchk")
    /\ Goto(w, IF stop_requested THEN "wait" ELSE "readline")
    /\ UNCHANGED <<auxvars, files, MAX_RESTARTS, stop_requested, ffmpeg_process, ffmpeg_thread, stream_state,
                   procs, handlers>>

\* lines 669-726: readline() returns a line.  "plain" stands for the lines
\* the loop only logs; "fatal" for the lines on which it records an error,
\* terminates the process and leaves the loop.
LineKinds == {"plain", "fatal"}

SupReadLine(w) ==
    /\ WorkerAt(w, "readline")
    /\ procs[ffmpeg_process].st = "alive"
    /\ \E kind \in LineKinds :
         IF kind = "fatal"
         THEN /\ stream_state' = set_error(stream_state, "fatal_line")
              /\ procs' = Ended(ffmpeg_process, RC_SIGTERM)
              /\ Goto(w, "wait")
         ELSE /\ Goto(w, "readchk")
              /\ UNCHANGED <<stream_state, procs>>
    /\ UNCHANGED <<auxvars, files, MAX_RESTARTS, stop_requested, ffmpeg_process, ffmpeg_thread, handlers>>

\* lines 669-671: readline() returns '' at end of file
SupReadEOF(w) ==
    /\ WorkerAt(w, "readline")
    /\ procs[ffmpeg_process].st = "exited"
    /\ Goto(w, "wait")
    /\ UNCHANGED <<auxvars, files, MAX_RESTARTS, stop_requested, ffmpeg_process, ffmpeg_thread, stream_state,
                   procs, handlers>>

\* lines 669, 728-730: readline() raises; the handler of the inner try logs
\* the exception and leaves the read loop.  Nothing is recorded in
\* stream_state, nothing is counted, and the process is left as it is.  On a
\* process that stays silent the call blocks: it neither returns nor raises.
SupReadError(w) ==
    /\ WorkerAt(w, "readline")
    /\ procs[ffmpeg_process].st # "hung"
    /\ Goto(w, "wait")
    /\ UNCHANGED <<auxvars, files, MAX_RESTARTS, stop_requested, ffmpeg_process, ffmpeg_thread, stream_state,
                   procs, handlers>>

\* lines 732-733: rc = ffmpeg_process.wait(); set_running(False)
SupWait(w) ==
    /\ WorkerAt(w, "wait")
    /\ procs[ffmpeg_process].st = "exited"
    /\ stream_state' = set_running(stream_state, FALSE)
    /\ SetWorker(w, [workers[w] EXCEPT !.pc = "chkstop",
                                       !.rc = procs[ffmpeg_process].rc])
    /\ UNCHANGED <<auxvars, files, MAX_RESTARTS, stop_requested, ffmpeg_process, ffmpeg_thread, procs, handlers>>

\* lines 739-741: if stop_requested: break
SupCheckStop(w) ==
    /\ WorkerAt(w, "chkstop")
    /\ IF stop_requested
       THEN SetWorker(w, [workers[w] EXCEPT !.pc = "exit", !.rc = RC_CLEAN])
       ELSE Goto(w, "restart")
    /\ UNCHANGED <<auxvars, files, MAX_RESTARTS, stop_requested, ffmpeg_process, ffmpeg_thread, stream_state,
                   procs, handlers>>

\* the counting of an exit without the budget test
restart_after_exit_unbounded(wk, max) ==
    [wk EXCEPT !.restarts = @ + 1, !.rc = RC_CLEAN, !.pc = "sleep"]

\* the restart taken after an exit: lines 743, 753-758
restart_after_exit(wk, max) ==
    LET n == wk.restarts + 1 IN
    [wk EXCEPT !.restarts = n, !.rc = RC_CLEAN,
               !.pc = IF n >= max THEN "exit" ELSE "sleep"]

\* lines 743-758: count the restart; give up when the budget is spent
SupRestart(w) ==
    /\ WorkerAt(w, "restart")
    /\ SetWorker(w, restart_after_exit(workers[w], MAX_RESTARTS))
    /\ stream_state' =
         IF workers[w].restarts + 1 >= MAX_RESTARTS
         THEN set_error(increment_restarts(stream_state), "max_restarts")
         ELSE increment_restarts(stream_state)
    /\ UNCHANGED <<auxvars, files, MAX_RESTARTS, stop_requested, ffmpeg_process, ffmpeg_thread, procs, handlers>>

\* lines 759-760 and 775-776: time.sleep(backoff) returns; the delay grows
SupSleep(w) ==
    /\ WorkerAt(w, "sleep")
    /\ SetWorker(w, [workers[w] EXCEPT !.pc = "loop",
                                       !.backoff = grow_backoff(@)])
    /\ UNCHANGED <<auxvars, files, MAX_RESTARTS, stop_requested, ffmpeg_process, ffmpeg_thread, stream_state,
                   procs, handlers>>

\* lines 778-779: set_running(False); the thread ends
SupExit(w) ==
    /\ WorkerAt(w, "exit")
    /\ stream_state' = set_running(stream_state, FALSE)
    /\ SetWorker(w, WorkerDone)
    /\ UNCHANGED <<auxvars, files, MAX_RESTARTS, stop_requested, ffmpeg_process, ffmpeg_thread, procs, handlers>>

Supervisor(w) ==
    \/ SupLoop(w)
    \/ SupSpawn(w)
    \/ SupSpawnFails(w)
    \/ SupReadCheck(w)
    \/ SupReadLine(w)
    \/ SupReadEOF(w)
    \/ SupReadError(w)
    \/ SupWait(w)
    \/ SupCheckStop(w)
    \/ SupRestart(w)
    \/ SupSleep(w)
    \/ SupExit(w)

(***************************************************************************)
(* The ffmpeg processes: what the operating system and ffmpeg do unasked.  *)
(***************************************************************************)
\* an exit nobody asked for: the input ended (0) or ffmpeg failed.  A
\* process no Popen object refers to leaves the table when it exits.
ProcExit(p) ==
    /\ procs[p].st = "alive"
    /\ \E rc \in {RC_CLEAN, RC_ERROR} :
         procs' = [procs EXCEPT ![p] =
                     IF p = ffmpeg_process THEN ExitedProc(rc) ELSE FreeSlot]
    /\ UNCHANGED <<auxvars, files, MAX_RESTARTS, stop_requested, ffmpeg_process, ffmpeg_thread, stream_state,
                   workers, handlers>>

\* the process stays alive and writes no more output
ProcHang(p) ==
    /\ procs[p].st = "alive"
    /\ p = ffmpeg_process
    /\ procs' = [procs EXCEPT ![p] = HungProc]
    /\ UNCHANGED <<auxvars, files, MAX_RESTARTS, stop_requested, ffmpeg_process, ffmpeg_thread, stream_state,
                   workers, handlers>>

(***************************************************************************)
(* The request handlers.                                                   *)
(***************************************************************************)
HandlerAt(h, pc) == handlers[h].pc = pc

HGoto(h, pc) == handlers' = [handlers EXCEPT ![h].pc = pc]

Respond(h, resp) == handlers' = [handlers EXCEPT ![h] = HandlerIdle(resp)]

\* destinations chosen without regard to their URL
enabled_destinations_without_url(dests) ==
    SelectSeq(dests, LAMBDA d : d.enabled /\ d.key # "")

\* lines 854-859: the destinations a stream can be sent to
enabled_destinations(dests) ==
    SelectSeq(dests, LAMBDA d : d.enabled /\ d.key # "" /\ d.url # "")


\* lines 862-921: the start branch accepts the request
start_accepted(ss, in) ==
    /\ enabled_destinations(ss.destinations) # <<>>
    /\ in.valid
    /\ in.build


\* line 805: if stream_state.running: the request is a stop
takes_stop_branch(ss) == ss.running

\* mkstemp: the path of the manifest of the next worker's command
NewManifest == Len(workers) + 1

\* line 805, and lines 840-921 when the stream is not running.  Shuffle mode
\* is on (its default, line 107): build_cmd writes a playlist manifest for
\* the command it returns (lines 582-584).
ToggleEnter(h) ==
    /\ HandlerAt(h, "idle")
    /\ IF takes_stop_branch(stream_state)
       THEN /\ HGoto(h, "stop_flag")
            /\ UNCHANGED <<stream_state, files>>
       ELSE \E in \in StartInputs :
              IF start_accepted(stream_state, in)
              THEN LET made == create_playlist_file(stream_state,
                                                    NewManifest, files) IN
                   /\ Len(workers) < MaxWorkers
                   /\ HGoto(h, "start")
                   /\ stream_state' = made.stream_state
                   /\ files' = made.files
              ELSE /\ Respond(h, "rejected")
                   /\ UNCHANGED <<stream_state, files>>
    /\ UNCHANGED <<auxvars, MAX_RESTARTS, stop_requested, ffmpeg_process, ffmpeg_thread,
                   procs, workers>>

\* lines 924-950: stop_requested = False; the worker thread is started
ToggleStart(h) ==
    /\ HandlerAt(h, "start")
    /\ stop_requested' = FALSE
    /\ workers' = Append(workers, WorkerInit)
    /\ ffmpeg_thread' = Len(workers) + 1
    /\ Respond(h, "started")
    /\ UNCHANGED <<auxvars, files, MAX_RESTARTS, ffmpeg_process, stream_state, procs>>

\* line 807: stop_requested = True
ToggleStopFlag(h) ==
    /\ HandlerAt(h, "stop_flag")
    /\ stop_requested' = TRUE
    /\ HGoto(h, "stop_term")
    /\ UNCHANGED <<auxvars, files, MAX_RESTARTS, ffmpeg_process, ffmpeg_thread, stream_state, procs, workers>>

\* lines 810-827: terminate, wait, kill
ToggleStopTerminate(h) ==
    /\ HandlerAt(h, "stop_term")
    /\ procs' = terminate_wait_kill
    /\ HGoto(h, "stop_join")
    /\ UNCHANGED <<auxvars, files, MAX_RESTARTS, stop_requested, ffmpeg_process, ffmpeg_thread, stream_state,
                   workers>>

\* The worker is at a call that can last longer than JOIN_TIMEOUT seconds:
\* a backoff sleep longer than that, wait() on a live process, readline()
\* on a process that writes nothing.
BlockedLong(w) ==
    \/ workers[w].pc = "sleep" /\ workers[w].backoff > JOIN_TIMEOUT * Scale
    \/ workers[w].pc = "wait" /\ IsLive(ffmpeg_process)
    \/ workers[w].pc = "readline" /\ procs[ffmpeg_process].st = "hung"

\* lines 830-834: join(timeout=5) returns: the thread ended, or the time ran out
join_returns(w) == ~is_alive(w) \/ BlockedLong(w)

ToggleStopJoin(h) ==
    /\ HandlerAt(h, "stop_join")
    /\ ffmpeg_thread # None => join_returns(ffmpeg_thread)
    /\ HGoto(h, "stop_reset")
    /\ UNCHANGED <<auxvars, files, MAX_RESTARTS, stop_requested, ffmpeg_process, ffmpeg_thread, stream_state,
                   procs, workers>>

\* lines 836-838: stream_state.reset(); the response
ToggleStopReset(h) ==
    /\ HandlerAt(h, "stop_reset")
    /\ stream_state' = reset(stream_state)
    /\ files' = files \ reset_removes(stream_state)
    /\ Respond(h, "stopped")
    /\ UNCHANGED <<auxvars, MAX_RESTARTS, stop_requested, ffmpeg_process, ffmpeg_thread, procs, workers>>

toggle(h) ==
    \/ ToggleEnter(h)
    \/ ToggleStart(h)
    \/ ToggleStopFlag(h)
    \/ ToggleStopTerminate(h)
    \/ ToggleStopJoin(h)
    \/ ToggleStopReset(h)

\* set_category, lines 1014 and 1026-1034, and toggle_shuffle, lines
\* 1057-1070 and 1087-1088: the setting is written, and the stream is
\* interrupted when it is running
SettingEnter(h) ==
    /\ HandlerAt(h, "idle")
    /\ \E op \in {"category", "shuffle"} :
         /\ IF stream_state.running
            THEN HGoto(h, "set_flag")
            ELSE Respond(h, "ok")
    /\ UNCHANGED <<auxvars, files, MAX_RESTARTS, stop_requested, ffmpeg_process, ffmpeg_thread, stream_state,
                   procs, workers>>

\* lines 1015 and 1071: stop_requested = True
SettingStopFlag(h) ==
    /\ HandlerAt(h, "set_flag")
    /\ stop_requested' = TRUE
    /\ HGoto(h, "set_term")
    /\ UNCHANGED <<auxvars, files, MAX_RESTARTS, ffmpeg_process, ffmpeg_thread, stream_state, procs, workers>>

\* lines 1016-1024 and 1072-1083: terminate, wait, kill; the response
SettingTerminate(h) ==
    /\ HandlerAt(h, "set_term")
    /\ procs' = terminate_wait_kill
    /\ Respond(h, "ok")
    /\ UNCHANGED <<auxvars, files, MAX_RESTARTS, stop_requested, ffmpeg_process, ffmpeg_thread, stream_state,
                   workers>>

\* skip_video, lines 1098-1111
skip_video(h) ==
    /\ HandlerAt(h, "idle")
    /\ IF ~stream_state.running
       THEN /\ Respond(h, "error")
            /\ UNCHANGED procs
       ELSE /\ procs' \in terminate_outcomes
            /\ Respond(h, "ok")
    /\ UNCHANGED <<auxvars, files, MAX_RESTARTS, stop_requested, ffmpeg_process, ffmpeg_thread, stream_state,
                   workers>>

\* destinations, POST: lines 964-994
destinations(h) ==
    /\ HandlerAt(h, "idle")
    /\ \E d \in DestChoices :
         stream_state' = set_destinations(stream_state, d)
    /\ Respond(h, "ok")
    /\ UNCHANGED <<auxvars, files, MAX_RESTARTS, stop_requested, ffmpeg_process, ffmpeg_thread, procs, workers>>

Setting(h) == SettingEnter(h) \/ SettingStopFlag(h) \/ SettingTerminate(h)

Process(p) == ProcExit(p) \/ ProcHang(p)

(***************************************************************************)
(* Spec: requests arrive at any time.                                      *)
(***************************************************************************)
Next ==
    \/ \E w \in WorkerIds : Supervisor(w)
    \/ \E p \in Pids : Process(p)
    \/ \E h \in Handlers : toggle(h)
    \/ \E h \in Handlers : Setting(h)
    \/ \E h \in Handlers : skip_video(h)
    \/ \E h \in Handlers : destinations(h)

Spec == Init /\ [][Next]_vars

(***************************************************************************)
(* SeqSpec: the same application used by a client that asks for a start    *)
(* only when no supervisor of an earlier start is left, with a restart     *)
(* budget of SeqBudget.                                                    *)
(***************************************************************************)
NoWorkerAlive == \A w \in Wids : ~is_alive(w)

SeqToggleEnter(h) ==
    /\ stream_state.running \/ NoWorkerAlive
    /\ ToggleEnter(h)

SeqToggle(h) ==
    \/ SeqToggleEnter(h)
    \/ ToggleStart(h)
    \/ ToggleStopFlag(h)
    \/ ToggleStopTerminate(h)
    \/ ToggleStopJoin(h)
    \/ ToggleStopReset(h)

SeqInit == InitWith(SeqBudget)

SeqNext ==
    \/ \E w \in WorkerIds : Supervisor(w)
    \/ \E p \in Pids : Process(p)
    \/ \E h \in Handlers : SeqToggle(h)
    \/ \E h \in Handlers : Setting(h)
    \/ \E h \in Handlers : skip_video(h)
    \/ \E h \in Handlers : destinations(h)

SeqSpec == SeqInit /\ [][SeqNext]_vars

(***************************************************************************)
(* ShuffleSpec: the same application used by a client that sets the        *)
(* destinations, starts the stream and changes the shuffle setting, and    *)
(* never asks for a stop: only toggle_shuffle sets the stop flag.          *)
(***************************************************************************)
\* toggle, line 805 not taken: the request is a start
ShuffleStart(h) ==
    /\ ~takes_stop_branch(stream_state)
    /\ ToggleEnter(h)

\* toggle_shuffle, lines 1057-1070 and 1087-1088: the new mode is written;
\* the stream is interrupted when it is running
ShuffleEnter(h) ==
    /\ HandlerAt(h, "idle")
    /\ \E shuffle_mode \in BOOLEAN :
         stream_state' = [stream_state EXCEPT !.shuffle_mode = shuffle_mode]
    /\ IF stream_state.running
       THEN HGoto(h, "set_flag")
       ELSE Respond(h, "ok")
    /\ UNCHANGED <<auxvars, files, MAX_RESTARTS, stop_requested, ffmpeg_process, ffmpeg_thread,
                   procs, workers>>

toggle_shuffle(h) ==
    \/ ShuffleEnter(h)
    \/ SettingStopFlag(h)
    \/ SettingTerminate(h)

ShuffleNext ==
    \/ \E w \in WorkerIds : Supervisor(w)
    \/ \E p \in Pids : Process(p)
    \/ \E h \in Handlers : ShuffleStart(h)
    \/ \E h \in Handlers : ToggleStart(h)
    \/ \E h \in Handlers : toggle_shuffle(h)
    \/ \E h \in Handlers : destinations(h)

ShuffleSpec == Init /\ [][ShuffleNext]_vars

(***************************************************************************)
(* CategorySpec: the client sets the destinations, starts the stream and   *)
(* switches the category, and never asks for a stop: only set_category     *)
(* sets the stop flag.                                                     *)
(***************************************************************************)
\* set_category, lines 1012-1034: the stop section of the handler is the
\* one of the settings requests
set_category(h) ==
    \/ SettingEnter(h)
    \/ SettingStopFlag(h)
    \/ SettingTerminate(h)

CategoryNext ==
    \/ \E w \in WorkerIds : Supervisor(w)
    \/ \E p \in Pids : Process(p)
    \/ \E h \in Handlers : ShuffleStart(h)
    \/ \E h \in Handlers : ToggleStart(h)
    \/ \E h \in Handlers : set_category(h)
    \/ \E h \in Handlers : destinations(h)

CategorySpec == Init /\ [][CategoryNext]_vars

(***************************************************************************)
(* SweepSpec: the application with the thread of cleanup_playlist_files,   *)
(* which is started at import and shares the stop flag of the supervisor.  *)
(***************************************************************************)
\* what the cleanup thread leaves alone
OutsideSweep ==
    <<MAX_RESTARTS, stop_requested, ffmpeg_process, ffmpeg_thread, procs,
      workers, handlers, lockvars, buildvars, logvars, callvars, readvars,
      timevars>>

\* line 286: while not stop_requested
SweepTest ==
    /\ playlist_cleanup_thread = "test"
    /\ playlist_cleanup_thread' = IF stop_requested THEN "done" ELSE "sweep"
    /\ UNCHANGED <<stream_state, files, OutsideSweep>>

\* lines 288-290: the deferred manifests are swept while a stream is running
SweepOldPlaylistFiles ==
    /\ playlist_cleanup_thread = "sweep"
    /\ IF stream_state.running
       THEN /\ stream_state' = cleanup_old_playlist_files(stream_state)
            /\ files' = files \ stream_state.old_playlist_files
       ELSE UNCHANGED <<stream_state, files>>
    /\ playlist_cleanup_thread' = "sleep"
    /\ UNCHANGED OutsideSweep

\* line 291: time.sleep(300) returns
SweepSleep ==
    /\ playlist_cleanup_thread = "sleep"
    /\ playlist_cleanup_thread' = "test"
    /\ UNCHANGED <<stream_state, files, OutsideSweep>>

cleanup_playlist_files == SweepTest \/ SweepOldPlaylistFiles \/ SweepSleep

SweepNext ==
    \/ \E w \in WorkerIds : Supervisor(w)
    \/ \E p \in Pids : Process(p)
    \/ \E h \in Handlers : toggle(h)
    \/ cleanup_playlist_files

SweepSpec == Init /\ [][SweepNext]_vars

(***************************************************************************)
(* UptimeSpec: the supervisors and the start and stop requests while time  *)
(* passes and a client polls the status.                                   *)
(***************************************************************************)
\* the seconds the clock is followed to
MaxClock == 2

\* what neither the clock nor a status request touches
OutsideTime ==
    <<MAX_RESTARTS, stop_requested, ffmpeg_process, ffmpeg_thread,
      stream_state, procs, workers, handlers, files, lockvars, buildvars,
      logvars, callvars, readvars, sweepvars>>

\* a second passes
Tick ==
    /\ clock.now < MaxClock
    /\ clock' = [clock EXCEPT !.now = @ + 1]
    /\ UNCHANGED OutsideTime

\* lines 155-157: the uptime get_status returns
get_status(ss) ==
    ss.uptime + (IF ss.running /\ ss.start_time # None
                 THEN Now - ss.start_time ELSE 0)

\* line 1121: a status request reads the snapshot
StatusRequest ==
    /\ clock' = [clock EXCEPT !.current_uptime = get_status(stream_state)]
    /\ UNCHANGED OutsideTime

UptimeNext ==
    \/ \E w \in WorkerIds : Supervisor(w)
    \/ \E p \in Pids : Process(p)
    \/ \E h \in Handlers : toggle(h)
    \/ Tick
    \/ StatusRequest

UptimeSpec == Init /\ [][UptimeNext]_vars

(***************************************************************************)
(* SkipSpec: the client sets the destinations, starts the stream and skips *)
(* videos.  No process ends by itself, none writes a line the supervisor  *)
(* ends it for, and nothing raises in the supervisor: a process ends only  *)
(* when a skip terminates it.                                              *)
(***************************************************************************)
\* lines 669-726 on a line the loop only logs
SkipReadLine(w) ==
    /\ SupReadLine(w)
    /\ procs' = procs

SkipNext ==
    \/ \E w \in WorkerIds : SupLoop(w)
    \/ \E w \in WorkerIds : SupSpawn(w)
    \/ \E w \in WorkerIds : SupReadCheck(w)
    \/ \E w \in WorkerIds : SkipReadLine(w)
    \/ \E w \in WorkerIds : SupReadEOF(w)
    \/ \E w \in WorkerIds : SupWait(w)
    \/ \E w \in WorkerIds : SupCheckStop(w)
    \/ \E w \in WorkerIds : SupRestart(w)
    \/ \E w \in WorkerIds : SupSleep(w)
    \/ \E w \in WorkerIds : SupExit(w)
    \/ \E h \in Handlers : ShuffleStart(h)
    \/ \E h \in Handlers : ToggleStart(h)
    \/ \E h \in Handlers : skip_video(h)
    \/ \E h \in Handlers : destinations(h)

SkipSpec == Init /\ [][SkipNext]_vars

(***************************************************************************)
(* The claims.                                                             *)
(***************************************************************************)
(* StreamState under its lock: the methods statement by statement.  A      *)
(* thread enters a method by taking self._lock, executes the statements of *)
(* the with block one at a time and gives the lock back with the last one. *)
(* `line` is the source line of the statement the thread executes next.    *)
(***************************************************************************)
\* the values StreamState.restarts is followed to
MaxRestartCount == 2

\* the seconds StreamState.uptime is followed to
MaxUptime == 1

\* the manifests on disk at one time
MaxManifests == 2

\* what no StreamState method touches
OutsideStreamState ==
    <<MAX_RESTARTS, stop_requested, ffmpeg_process, ffmpeg_thread, procs,
      workers, handlers, buildvars, logvars, callvars, readvars, sweepvars, timevars>>

\* an acquire() that returns whoever holds the lock
acquirable_always(l) == TRUE

\* threading.Lock.acquire() returns
acquirable(l) == l = Unlocked

Methods ==
    {"set_running", "increment_restarts", "set_error", "reset", "get_status",
     "set_playlist_file"}

FirstLine(op) ==
    CASE op = "set_running" -> 113
      [] op = "increment_restarts" -> 123
      [] op = "set_error" -> 128
      [] op = "reset" -> 132
      [] op = "get_status" -> 155
      [] op = "set_playlist_file" -> 183

InMethod(t, op, line) == callers[t].op = op /\ callers[t].line = line

ToLine(t, line) == callers' = [callers EXCEPT ![t].line = line]

\* the end of the with block
Release(t) ==
    /\ callers' = [callers EXCEPT ![t] = CallerIdle]
    /\ lock' = Unlocked

\* with self._lock: of any method
Acquire(t) ==
    /\ callers[t].op = "idle"
    /\ acquirable(lock)
    /\ \E op \in Methods, running \in BOOLEAN :
         /\ op # "set_running" => ~running
         /\ op = "increment_restarts" =>
                stream_state.restarts < MaxRestartCount
         \* create_playlist_file, lines 457 and 505: the argument of
         \* set_playlist_file is the file mkstemp has just made
         /\ op = "set_playlist_file" => Cardinality(files) < MaxManifests
         /\ files' = IF op = "set_playlist_file"
                     THEN files \cup {mkstemp(files)} ELSE files
         /\ callers' = [callers EXCEPT
                ![t] = [CallerIdle EXCEPT
                          !.op = op, !.running = running,
                          !.line = FirstLine(op),
                          !.playlist_file =
                              IF op = "set_playlist_file"
                              THEN mkstemp(files) ELSE None]]
    /\ lock' = t
    /\ UNCHANGED <<stream_state, snapshot, OutsideStreamState>>

\* lines 113-119
SetRunningStep(t) ==
    /\ \/ /\ InMethod(t, "set_running", 113)
          /\ stream_state' =
               [stream_state EXCEPT !.running = callers[t].running]
          /\ ToLine(t, IF callers[t].running THEN 115 ELSE 117)
          /\ UNCHANGED lock
       \/ /\ InMethod(t, "set_running", 115)
          /\ stream_state' = [stream_state EXCEPT !.start_time = Now]
          /\ Release(t)
       \* lines 117-118: time.time() - self.start_time is some time that
       \* has passed since the start
       \/ /\ InMethod(t, "set_running", 117)
          /\ IF stream_state.start_time # None
             THEN \E elapsed \in 0..(MaxUptime - stream_state.uptime) :
                    stream_state' =
                        [stream_state EXCEPT !.uptime = @ + elapsed]
             ELSE UNCHANGED stream_state
          /\ ToLine(t, 119)
          /\ UNCHANGED lock
       \/ /\ InMethod(t, "set_running", 119)
          /\ stream_state' = [stream_state EXCEPT !.start_time = None]
          /\ Release(t)
    /\ UNCHANGED <<snapshot, files, OutsideStreamState>>

\* lines 123-124
IncrementRestartsStep(t) ==
    /\ InMethod(t, "increment_restarts", 123)
    /\ stream_state' = [stream_state EXCEPT !.restarts = @ + 1]
    /\ Release(t)
    /\ UNCHANGED <<snapshot, files, OutsideStreamState>>

\* line 128
SetErrorStep(t) ==
    /\ InMethod(t, "set_error", 128)
    /\ stream_state' = [stream_state EXCEPT !.last_error = "exception"]
    /\ Release(t)
    /\ UNCHANGED <<snapshot, files, OutsideStreamState>>

\* lines 183-186
SetPlaylistFileStep(t) ==
    /\ \/ /\ InMethod(t, "set_playlist_file", 183)
          /\ stream_state' =
               [stream_state EXCEPT
                  !.old_playlist_files =
                      IF /\ stream_state.current_playlist_file # None
                         /\ stream_state.current_playlist_file \in files
                      THEN @ \cup {stream_state.current_playlist_file}
                      ELSE @]
          /\ ToLine(t, 186)
          /\ UNCHANGED lock
       \/ /\ InMethod(t, "set_playlist_file", 186)
          /\ stream_state' =
               [stream_state EXCEPT
                  !.current_playlist_file = callers[t].playlist_file]
          /\ Release(t)
    /\ UNCHANGED <<snapshot, files, OutsideStreamState>>

\* line 141 with every queued file forgotten but one
clear_keeps_one(old_playlist_files) ==
    IF old_playlist_files = {} THEN {}
    ELSE {CHOOSE f \in old_playlist_files : TRUE}

\* line 141: self.old_playlist_files.clear()
clear(old_playlist_files) == {}

\* lines 132-141: the with block of reset
ResetStep(t) ==
    /\ \/ /\ InMethod(t, "reset", 132)
          /\ stream_state' = [stream_state EXCEPT !.running = FALSE]
          /\ ToLine(t, 133)
          /\ UNCHANGED lock
       \/ /\ InMethod(t, "reset", 133)
          /\ stream_state' = [stream_state EXCEPT !.start_time = None]
          /\ ToLine(t, 134)
          /\ UNCHANGED lock
       \/ /\ InMethod(t, "reset", 134)
          /\ stream_state' = [stream_state EXCEPT !.last_error = "None"]
          /\ ToLine(t, 135)
          /\ UNCHANGED lock
       \/ /\ InMethod(t, "reset", 135)
          /\ stream_state' = [stream_state EXCEPT !.process_id = None]
          /\ ToLine(t, 137)
          /\ UNCHANGED lock
       \* lines 137-139
       \/ /\ InMethod(t, "reset", 137)
          /\ stream_state' =
               [stream_state EXCEPT !.current_playlist_file = None]
          /\ callers' =
               [callers EXCEPT
                  ![t].line = 140,
                  ![t].files_to_cleanup =
                      IF stream_state.current_playlist_file # None
                      THEN {stream_state.current_playlist_file} ELSE {}]
          /\ UNCHANGED lock
       \/ /\ InMethod(t, "reset", 140)
          /\ callers' =
               [callers EXCEPT
                  ![t].line = 141,
                  ![t].files_to_cleanup =
                      @ \cup stream_state.old_playlist_files]
          /\ UNCHANGED <<stream_state, lock>>
       \* line 141 ends the with block: the thread goes on at line 145
       \* without the lock
       \/ /\ InMethod(t, "reset", 141)
          /\ stream_state' =
               [stream_state EXCEPT !.old_playlist_files = clear(@)]
          /\ ToLine(t, 145)
          /\ lock' = Unlocked
    /\ UNCHANGED <<snapshot, files, OutsideStreamState>>

\* lines 145-151: the files collected are removed one by one, and reset
\* returns after the last
ResetRemoveStep(t) ==
    /\ InMethod(t, "reset", 145)
    /\ IF callers[t].files_to_cleanup = {}
       THEN /\ callers' = [callers EXCEPT ![t] = CallerIdle]
            /\ UNCHANGED files
       ELSE \E file_path \in callers[t].files_to_cleanup :
              /\ files' = files \ {file_path}
              /\ callers' =
                   [callers EXCEPT ![t].files_to_cleanup = @ \ {file_path}]
    /\ UNCHANGED <<stream_state, lock, snapshot, OutsideStreamState>>

\* start_supervised, line 662: stream_state.process_id = ffmpeg_process.pid,
\* an assignment of the supervisor thread outside every method
WriteProcessId(t) ==
    /\ callers[t].op = "idle"
    /\ \E pid \in Pids :
         stream_state' = [stream_state EXCEPT !.process_id = pid]
    /\ UNCHANGED <<lock, callers, snapshot, files, OutsideStreamState>>

\* toggle_shuffle, line 1058: stream_state.shuffle_mode = shuffle_mode, an
\* assignment of the request thread outside every method
WriteShuffleMode(t) ==
    /\ callers[t].op = "idle"
    /\ \E shuffle_mode \in BOOLEAN :
         stream_state' = [stream_state EXCEPT !.shuffle_mode = shuffle_mode]
    /\ UNCHANGED <<lock, callers, snapshot, files, OutsideStreamState>>

\* lines 155-166: what get_status reads of running and start_time
GetStatusStep(t) ==
    /\ InMethod(t, "get_status", 155)
    /\ snapshot' = [taken |-> TRUE, running |-> stream_state.running,
                    start_time |-> stream_state.start_time]
    /\ Release(t)
    /\ UNCHANGED <<stream_state, files, OutsideStreamState>>

LockNext ==
    \E t \in Callers :
        \/ Acquire(t)
        \/ SetRunningStep(t)
        \/ IncrementRestartsStep(t)
        \/ SetErrorStep(t)
        \/ ResetStep(t)
        \/ GetStatusStep(t)
        \/ SetPlaylistFileStep(t)
        \/ ResetRemoveStep(t)
        \/ WriteProcessId(t)
        \/ WriteShuffleMode(t)

LockSpec == Init /\ [][LockNext]_vars

(***************************************************************************)
(* ManifestSpec: the methods that keep the manifests, statement by         *)
(* statement, on a disk where os.remove can fail.                          *)
(***************************************************************************)
\* set_playlist_file and reset are entered as in LockSpec
ManifestAcquire(t) ==
    /\ Acquire(t)
    /\ callers'[t].op \in {"set_playlist_file", "reset"}

\* lines 190-192: with self._lock: the queue is copied into the local
\* files_to_remove and cleared; the lock is given back
CleanupCopyStep(t) ==
    /\ \/ /\ callers[t].op = "idle"
          /\ acquirable(lock)
          /\ callers' = [callers EXCEPT
                 ![t] = [CallerIdle EXCEPT
                           !.op = "cleanup_old_playlist_files",
                           !.line = 191,
                           !.files_to_cleanup =
                               stream_state.old_playlist_files]]
          /\ lock' = t
          /\ UNCHANGED stream_state
       \/ /\ InMethod(t, "cleanup_old_playlist_files", 191)
          /\ stream_state' =
               [stream_state EXCEPT !.old_playlist_files = clear(@)]
          /\ ToLine(t, 196)
          /\ lock' = Unlocked
    /\ UNCHANGED <<snapshot, files, OutsideStreamState>>

\* lines 196-200, 209: a file of the copy is removed; the method returns
\* after the last
CleanupRemoveStep(t) ==
    /\ InMethod(t, "cleanup_old_playlist_files", 196)
    /\ IF callers[t].files_to_cleanup = {}
       THEN /\ callers' = [callers EXCEPT ![t] = CallerIdle]
            /\ UNCHANGED files
       ELSE \E file_path \in callers[t].files_to_cleanup :
              /\ files' = files \ {file_path}
              /\ callers' =
                   [callers EXCEPT ![t].files_to_cleanup = @ \ {file_path}]
    /\ UNCHANGED <<stream_state, lock, snapshot, OutsideStreamState>>

\* lines 202-207: os.remove raises; the file is put back into the queue
\* under the lock
CleanupRemoveFails(t) ==
    /\ InMethod(t, "cleanup_old_playlist_files", 196)
    /\ acquirable(lock)
    /\ \E file_path \in callers[t].files_to_cleanup \cap files :
         /\ stream_state' =
              [stream_state EXCEPT !.old_playlist_files = @ \cup {file_path}]
         /\ callers' =
              [callers EXCEPT ![t].files_to_cleanup = @ \ {file_path}]
    /\ UNCHANGED <<lock, files, snapshot, OutsideStreamState>>

\* lines 146-151: os.remove raises; reset logs a warning and goes on
ResetRemoveFails(t) ==
    /\ InMethod(t, "reset", 145)
    /\ \E file_path \in callers[t].files_to_cleanup \cap files :
         callers' = [callers EXCEPT ![t].files_to_cleanup = @ \ {file_path}]
    /\ UNCHANGED <<stream_state, lock, files, snapshot, OutsideStreamState>>

ManifestNext ==
    \E t \in Callers :
        \/ ManifestAcquire(t)
        \/ SetPlaylistFileStep(t)
        \/ ResetStep(t)
        \/ ResetRemoveStep(t)
        \/ ResetRemoveFails(t)
        \/ CleanupCopyStep(t)
        \/ CleanupRemoveStep(t)
        \/ CleanupRemoveFails(t)

ManifestSpec == Init /\ [][ManifestNext]_vars

(***************************************************************************)
(* The start branch of toggle line by line, next to the requests that      *)
(* change the configuration it reads.  No stream is running: every toggle  *)
(* takes the start branch.  `line` is the source line the request executes *)
(* next; the request keeps what it read where.                             *)
(***************************************************************************)
\* the playlists scan_videos finds: no video, or two
Playlists == {<<>>, <<"a.mp4", "b.mp4">>}

\* lines 865-907: the validators accept the form
form_valid(form) == form # "bad"

\* list_videos(): the playlist of the stream state
list_videos(ss) == ss.playlist

\* what toggle and the functions it calls leave alone before the thread starts
OutsideBuild ==
    <<MAX_RESTARTS, stop_requested, ffmpeg_process, ffmpeg_thread, procs,
      workers, handlers, lockvars, logvars, callvars, readvars, sweepvars, timevars>>

BuilderAt(line) == builder.line = line

BuilderTo(line) == [builder EXCEPT !.line = line]

\* return jsonify({"running": False, "error": ...}), 400
Rejected == [builder EXCEPT !.line = 0, !.resp = "rejected"]

\* lines 841-852: the form is read, stored in DEFAULTS and persisted
ToggleForm ==
    /\ BuilderAt(0)
    /\ ~takes_stop_branch(stream_state)
    /\ Len(workers) < MaxWorkers
    /\ \E form \in Forms :
         /\ builder' = [BuilderIdle EXCEPT !.line = 854, !.form = form,
                                           !.before = DEFAULTS]
         /\ DEFAULTS' = form
         /\ form_settings' = form
    /\ UNCHANGED <<stream_state, files, OutsideBuild>>

\* lines 854-859: the destinations a stream can be sent to are collected
ToggleReadDestinations ==
    /\ BuilderAt(854)
    /\ builder' = [BuilderTo(861) EXCEPT
                     !.enabled = enabled_destinations(stream_state.destinations)]
    /\ UNCHANGED <<stream_state, files, DEFAULTS, form_settings, OutsideBuild>>

\* lines 861-907: validation
ToggleValidate ==
    /\ BuilderAt(861)
    /\ builder' =
         IF builder.enabled = <<>> \/ ~form_valid(builder.form)
         THEN Rejected
         ELSE IF list_videos(stream_state) = <<>>
              THEN [Rejected EXCEPT !.videos_874 = list_videos(stream_state)]
              ELSE [BuilderTo(582) EXCEPT
                      !.videos_874 = list_videos(stream_state)]
    /\ UNCHANGED <<stream_state, files, DEFAULTS, form_settings, OutsideBuild>>

\* build_cmd, lines 534-609: the input of the command is chosen on the
\* shuffle mode
BuildCmdInput ==
    /\ BuilderAt(582)
    /\ builder' =
         IF stream_state.shuffle_mode
         THEN [BuilderTo(452) EXCEPT !.shuffle_582 = TRUE]
         ELSE IF list_videos(stream_state) = <<>>
              THEN [Rejected EXCEPT !.shuffle_582 = FALSE]
              ELSE [BuilderTo(924) EXCEPT !.shuffle_582 = FALSE]
    /\ UNCHANGED <<stream_state, files, DEFAULTS, form_settings, OutsideBuild>>

\* create_playlist_file, lines 452-518: the videos and the shuffle mode are
\* read again, the manifest is written
CreatePlaylistFile ==
    /\ BuilderAt(452)
    /\ IF list_videos(stream_state) = <<>>
       THEN /\ builder' = [Rejected EXCEPT !.videos_452 = <<>>]
            /\ UNCHANGED <<stream_state, files>>
       ELSE LET made == create_playlist_file(stream_state, NewManifest, files) IN
            /\ builder' = [BuilderTo(924) EXCEPT
                             !.videos_452 = list_videos(stream_state),
                             !.shuffle_464 = stream_state.shuffle_mode]
            /\ stream_state' = made.stream_state
            /\ files' = made.files
    /\ UNCHANGED <<DEFAULTS, form_settings, OutsideBuild>>

\* lines 924-929: the supervisor thread is started
ToggleThreadStart ==
    /\ BuilderAt(924)
    /\ builder' = BuilderTo(931)
    /\ stop_requested' = FALSE
    /\ workers' = Append(workers, WorkerInit)
    /\ ffmpeg_thread' = Len(workers) + 1
    /\ UNCHANGED <<stream_state, files, DEFAULTS, form_settings, MAX_RESTARTS,
                   ffmpeg_process, procs, handlers, lockvars, logvars, callvars, readvars, sweepvars, timevars>>

\* lines 931-950: the description and the response
ToggleDescribe ==
    /\ BuilderAt(931)
    /\ builder' = [BuilderTo(0) EXCEPT
                     !.shuffle_932 = stream_state.shuffle_mode,
                     !.videos_933 = list_videos(stream_state),
                     !.resp = "started"]
    /\ UNCHANGED <<stream_state, files, DEFAULTS, form_settings, OutsideBuild>>

\* toggle_shuffle, line 1058: stream_state.shuffle_mode = shuffle_mode
UpdateShuffle ==
    /\ stream_state' = [stream_state EXCEPT !.shuffle_mode = ~@]
    /\ UNCHANGED <<files, buildvars, OutsideBuild>>

\* destinations, line 987: stream_state.set_destinations(valid_destinations)
UpdateDestinations ==
    /\ \E d \in DestChoices \ {stream_state.destinations} :
         stream_state' = set_destinations(stream_state, d)
    /\ UNCHANGED <<files, buildvars, OutsideBuild>>

\* set_category, line 1027: scan_videos() sets the playlist of the category
UpdatePlaylist ==
    /\ \E playlist \in Playlists \ {stream_state.playlist} :
         stream_state' = [stream_state EXCEPT !.playlist = playlist]
    /\ UNCHANGED <<files, buildvars, OutsideBuild>>

BuildNext ==
    \/ ToggleForm
    \/ ToggleReadDestinations
    \/ ToggleValidate
    \/ BuildCmdInput
    \/ CreatePlaylistFile
    \/ ToggleThreadStart
    \/ ToggleDescribe
    \/ UpdateShuffle
    \/ UpdateDestinations
    \/ UpdatePlaylist

BuildSpec == Init /\ [][BuildNext]_vars

(***************************************************************************)
(* The log ring buffer: the worker appends the process's output while      *)
(* request handlers append their own lines and /logs reads the tail.       *)
(***************************************************************************)
\* MAX_LOG_LINES = int(os.getenv('MAX_LOG_LINES', '500')): the capacity
\* configured here
MAX_LOG_LINES == 3
\* lines the process writes over its life
MaxLines == 5
\* how many of the newest entries /logs returns ([-200:] at line 1148)
TailLen == 2

\* a line that is not process output: "[system] ...", "[supervisor] ..."
SystemLine == 0

\* what StreamState and the start branch are not: everything but the log
OutsideLog ==
    <<MAX_RESTARTS, stop_requested, ffmpeg_process, ffmpeg_thread,
      stream_state, procs, workers, handlers, files, lockvars, buildvars,
      callvars, readvars, sweepvars, timevars>>

\* an append that gives up the newest entry when the buffer is full
deque_append_drops_newest(buf, x) ==
    IF Len(buf) < MAX_LOG_LINES THEN Append(buf, x)
    ELSE IF MAX_LOG_LINES = 0 THEN <<>>
    ELSE [buf EXCEPT ![Len(buf)] = x]

\* deque(maxlen=MAX_LOG_LINES).append(x): when the deque is full the entry
\* at the other end is discarded
deque_append(buf, x) ==
    IF Len(buf) < MAX_LOG_LINES THEN Append(buf, x)
    ELSE IF MAX_LOG_LINES = 0 THEN <<>>
    ELSE Append(Tail(buf), x)

\* list(log_buffer)[-200:]
last_lines(buf, n) ==
    IF Len(buf) <= n THEN buf ELSE SubSeq(buf, Len(buf) - n + 1, Len(buf))

\* the process writes its next line to stdout (the pipe of line 652)
ProcEmit ==
    /\ emitted < MaxLines
    /\ emitted' = emitted + 1
    /\ pipe' = Append(pipe, emitted + 1)
    /\ UNCHANGED <<log_buffer, tail, OutsideLog>>

\* lines 669-672: readline() returns the oldest unread line; it is appended
LogReadLine ==
    /\ pipe # <<>>
    /\ log_buffer' = deque_append(log_buffer, Head(pipe))
    /\ pipe' = Tail(pipe)
    /\ UNCHANGED <<emitted, tail, OutsideLog>>

\* a request handler (lines 837, 941, 993, 1033, 1087, 1106) or the
\* supervisor itself (lines 663, 740-771) appends a line of its own
LogSystemLine ==
    /\ log_buffer' = deque_append(log_buffer, SystemLine)
    /\ UNCHANGED <<pipe, emitted, tail, OutsideLog>>

\* lines 1144-1149: /logs copies the buffer and returns its newest entries
logs ==
    /\ tail' = last_lines(log_buffer, TailLen)
    /\ UNCHANGED <<log_buffer, pipe, emitted, OutsideLog>>

LogNext ==
    \/ ProcEmit
    \/ LogReadLine
    \/ LogSystemLine
    \/ logs

LogSpec == Init /\ [][LogNext]_vars

(***************************************************************************)
(* The validators and build_cmd's choice of input, as functions of their   *)
(* arguments.  A string is the sequence of its characters.                 *)
(***************************************************************************)
\* the longest bitrate string that is tried
MaxBitrateLen == 3
\* the longest path, not counting its extension, that is tried
MaxStemLen == 3
\* the largest repeat count that is asked for
MaxRepeat == 3
\* the longest list of stored destinations
MaxDests == 2

\* a digit, the letter k, a blank, and any other character
BitrateChars == {"7", "k", " ", "x"}

\* a letter, the dot and the separator; a path ends with a dot and the
\* letters of an extension, which count as one character here
PathChars == {"a", ".", "/"}
Extensions == {"mp4", "txt"}

\* every sequence over chars of at most n characters
StringsUpTo(chars, n) == UNION {[1..k -> chars] : k \in 0..n}

\* str.strip(): blanks at both ends are removed
RECURSIVE lstrip(_)
lstrip(s) == IF s # <<>> /\ Head(s) = " " THEN lstrip(Tail(s)) ELSE s

RECURSIVE rstrip(_)
rstrip(s) ==
    IF s # <<>> /\ s[Len(s)] = " " THEN rstrip(SubSeq(s, 1, Len(s) - 1)) ELSE s

strip(s) == rstrip(lstrip(s))

\* \d
isdigit(c) == c = "7"

\* re.match(r'^\d+k?$', s): one or more digits, then at most one k
matches_bitrate_pattern(s) ==
    \E n \in 1..Len(s) :
        /\ \A i \in 1..n : isdigit(s[i])
        /\ \/ n = Len(s)
           \/ n + 1 = Len(s) /\ s[Len(s)] = "k"

\* lines 314-318
validate_bitrate(bitrate) ==
    IF bitrate = <<>> THEN FALSE ELSE matches_bitrate_pattern(strip(bitrate))

\* '..' in filename
contains_dotdot(filename) ==
    \E i \in 1..(Len(filename) - 1) : filename[i] = "." /\ filename[i + 1] = "."

\* the extensions of line 312
VideoExtensions == {"mp4", "mkv", "avi", "mov", "flv", "webm"}

\* filename.lower().endswith(('.mp4', ...))
has_video_extension(filename) ==
    /\ Len(filename) >= 2
    /\ filename[Len(filename) - 1] = "."
    /\ filename[Len(filename)] \in VideoExtensions

\* lines 308-312
validate_video_filename(filename) ==
    /\ ~ \/ filename = <<>>
         \/ contains_dotdot(filename)
         \/ Head(filename) = "/"
         \/ \E i \in DOMAIN filename : filename[i] = "\\"
    /\ has_video_extension(filename)

\* lines 425-434: TRUE when a path is returned, FALSE when ValueError is
\* raised; exists is what os.path.exists answers for the joined path
validate_and_get_video_path(selected_video, exists) ==
    /\ selected_video # <<>>
    /\ validate_video_filename(selected_video)
    /\ exists

\* the videos of the category
VideoA == <<"a", ".", "mp4">>
VideoB == <<"b", ".", "mp4">>
VideoC == <<"c", ".", "mp4">>
Videos == {VideoA, VideoB, VideoC}

\* the orders in which the videos can stand in a list
Orders == {s \in [1..Cardinality(Videos) -> Videos] :
              \A i, j \in DOMAIN s : i # j => s[i] # s[j]}

\* the order of str on the names of the videos
Before(v, w) ==
    \/ v[1] = "a" /\ w[1] # "a"
    \/ v[1] = "b" /\ w[1] = "c"

\* line 379: current_videos.sort()
sort(videos) ==
    CHOOSE s \in Orders :
        /\ \A v \in Videos : (\E i \in DOMAIN s : s[i] = v) <=>
                                (\E i \in DOMAIN videos : videos[i] = v)
        /\ \A i, j \in DOMAIN s : i < j => Before(s[i], s[j])

\* lines 340-380: the files in the order os.walk names them, sorted
scan_videos(listing) == sort(listing)

\* lines 463-494: the entries of the manifest; shuffled is what
\* random.shuffle made of the copy
playlist_videos(videos, shuffle_mode, shuffled) ==
    IF shuffle_mode THEN shuffled ELSE videos

\* the entries that pass the checks of lines 480-486, in their order
RECURSIVE valid_entries(_, _)
valid_entries(videos, readable) ==
    IF videos = <<>> THEN <<>>
    ELSE IF Head(videos) \in readable
    THEN <<Head(videos)>> \o valid_entries(Tail(videos), readable)
    ELSE valid_entries(Tail(videos), readable)

\* lines 331-334
validate_encoder(encoder) == encoder \in {"libx264", "h264_nvenc", "h264_vaapi"}

\* lines 414-423: device is whether /dev/dri/renderD128 exists
check_hardware_encoder_availability(encoder, device) ==
    encoder = "h264_vaapi" => device

\* the scheme urlparse finds in the URLs that are tried
url_scheme(url) ==
    CASE url = "srt://h:1" -> "srt"
      [] url = "srt://b/" -> "srt"
      [] url = "rtmp://a/" -> "rtmp"
      [] url = "http://h" -> "http"
      [] OTHER -> ""

\* lines 320-329
validate_srt_url(url) ==
    url # "" /\ url_scheme(url) \in {"srt", "rtmp", "rtmps", "udp"}

\* what build_cmd answers when it raises
BuildFails == [NoResponse EXCEPT !.fn = "build_cmd"]

\* lines 532-619: build_cmd.  env is what the function reads besides its
\* arguments: stream_state.shuffle_mode, the sorted videos, which of them
\* are readable, whether the selected path exists, whether the VAAPI device
\* exists, and what random.shuffle made of the list.  The answer tells the
\* input, the -preset and the outputs of the command, the entries of the
\* manifest, how many manifests were registered (created) and whether a
\* manifest without entries was removed again.
build_cmd(encoder, preset, bitrate, out_url, selected_video, env) ==
    IF \/ ~validate_bitrate(bitrate)
       \/ ~validate_encoder(encoder)
       \/ ~check_hardware_encoder_availability(encoder, env.device)
    THEN BuildFails
    ELSE LET cmd == [BuildFails EXCEPT
                       !.ok = TRUE,
                       !.preset = IF encoder = "h264_vaapi" THEN "none"
                                  ELSE preset,
                       !.outputs = <<[url |-> out_url, format |-> "flv"]>>]
             entries == valid_entries(
                            playlist_videos(env.videos, env.shuffle_mode,
                                            env.shuffled), env.readable)
         IN  IF env.shuffle_mode
             THEN IF env.videos = <<>> THEN BuildFails
                  ELSE IF entries = <<>>
                  THEN [BuildFails EXCEPT !.removed = TRUE]
                  ELSE [cmd EXCEPT !.input = "concat", !.manifest = entries,
                                   !.created = 1]
             ELSE IF selected_video # <<>>
             THEN IF validate_and_get_video_path(selected_video, env.exists)
                  THEN [cmd EXCEPT !.input = "stream_loop",
                                   !.video = selected_video]
                  ELSE BuildFails
             ELSE IF env.videos # <<>>
             THEN [cmd EXCEPT !.input = "stream_loop", !.video = env.videos[1]]
             ELSE BuildFails

\* what build_cmd reads besides its arguments, for the call req
Env(req, shuffled) ==
    [shuffle_mode |-> req.shuffle_mode, videos |-> scan_videos(req.listing),
     readable |-> req.readable, exists |-> req.exists, device |-> req.device,
     shuffled |-> shuffled]

\* what the start branch answers when it rejects the request
StartRejected == [NoResponse EXCEPT !.fn = "toggle"]

\* lines 854-950: the start branch of toggle as a function of the form
\* and of the stored destinations (req.destinations)
toggle_start(req, shuffled) ==
    LET enabled == enabled_destinations(req.destinations)
        env == Env(req, shuffled)
        first == build_cmd(req.encoder, req.preset, req.bitrate, enabled[1],
                           <<>>, env)
        cmd == build_cmd(req.encoder, req.preset, req.bitrate, enabled[1],
                         IF req.input_type = "file"
                         THEN req.selected_video ELSE <<>>, env)
        rejected(n, removed) ==
            [StartRejected EXCEPT !.created = n, !.removed = removed]
    IN  IF enabled = <<>> THEN StartRejected
        ELSE IF ~validate_bitrate(req.bitrate) \/ ~validate_encoder(req.encoder)
        THEN StartRejected
        ELSE IF req.input_type = "file" /\
                \/ env.videos = <<>>
                \/ req.selected_video # <<>> /\
                   ~validate_and_get_video_path(req.selected_video, req.exists)
        THEN StartRejected
        ELSE IF req.input_type = "srt" /\ ~validate_srt_url(req.srt_url)
        THEN StartRejected
        ELSE IF req.input_type = "srt" /\ ~first.ok
        THEN rejected(0, first.removed)
        ELSE IF req.input_type \notin {"file", "srt"} THEN StartRejected
        ELSE IF ~cmd.ok
        THEN rejected(IF req.input_type = "srt" THEN first.created ELSE 0,
                      cmd.removed)
        ELSE [cmd EXCEPT
                !.fn = "toggle",
                !.count = Len(enabled),
                !.created = IF req.input_type = "srt"
                            THEN first.created + cmd.created ELSE cmd.created]

\* lines 1126-1128: the destinations status counts as enabled
enabled_count(dests) ==
    Cardinality({i \in DOMAIN dests :
                    dests[i].enabled /\ dests[i].key # "" /\ dests[i].url # ""})

\* the calls that are tried
BitrateRequests ==
    {[NoRequest EXCEPT !.fn = "validate_bitrate", !.bitrate = b] :
        b \in StringsUpTo(BitrateChars, MaxBitrateLen)}

PathRequests ==
    {[NoRequest EXCEPT !.fn = "validate_and_get_video_path",
                       !.selected_video = stem \o <<".", ext>>,
                       !.exists = e] :
        stem \in StringsUpTo(PathChars, MaxStemLen), ext \in Extensions,
        e \in BOOLEAN}

\* a call with a form that passes every validator: the values of DEFAULTS
\* (lines 216-225), the three videos on disk, one destination
ValidCall(fn) ==
    [NoRequest EXCEPT !.fn = fn, !.bitrate = <<"7", "k">>, !.exists = TRUE,
                      !.listing = <<VideoA, VideoB, VideoC>>,
                      !.readable = Videos,
                      !.destinations = <<Dest(TRUE, "k1")>>]

\* with shuffle mode on what matters is which videos are readable; with
\* shuffle mode off, which video is selected; and for both the encoder,
\* the preset and the device
InputRequests(fn) ==
    {[ValidCall(fn) EXCEPT !.shuffle_mode = TRUE, !.listing = l,
                           !.readable = r, !.repeat = n] :
        l \in Orders, r \in SUBSET Videos, n \in 1..MaxRepeat}
    \cup
    {[ValidCall(fn) EXCEPT !.listing = l, !.selected_video = v] :
        l \in Orders, v \in {<<>>, VideoB}}
    \cup
    {[ValidCall(fn) EXCEPT !.encoder = e, !.preset = p, !.device = d] :
        e \in {"libx264", "h264_nvenc", "h264_vaapi", "mpeg2video"},
        p \in {"medium", "warp9"}, d \in BOOLEAN}

BuildRequests == InputRequests("build_cmd")

\* the destination lists that can be stored
DestValues ==
    [enabled : BOOLEAN, key : {"", "k1"}, url : {"", "rtmp://a/", "srt://b/"}]

DestLists == StringsUpTo(DestValues, MaxDests)

ToggleRequests ==
    InputRequests("toggle")
    \cup
    {[ValidCall("toggle") EXCEPT !.destinations = d] : d \in DestLists}
    \cup
    {[ValidCall("toggle") EXCEPT !.input_type = t, !.srt_url = u,
                                 !.shuffle_mode = m] :
        t \in {"file", "srt", "hls"}, u \in {"", "srt://h:1", "http://h"},
        m \in BOOLEAN}

\* the handlers and functions that write to the key-value store
StoreFns ==
    {"save_state", "scan_videos", "destinations", "set_category",
     "toggle_shuffle"}

\* the store: connected, not connected when the application started
\* (redis_client is None, lines 51-58), or connected then and failing now
Stores == {"present", "absent", "failing"}

\* if redis_client: redis_client.set(...)
redis_set(store) ==
    CASE store = "absent" -> "skipped"
      [] store = "failing" -> "raised"
      [] OTHER -> "written"

\* what a handler or function that writes to the store does: ok is whether
\* it returns its normal result, memory whether the change in memory is
\* made, stop whether the running stream is told to stop.
\*   save_state (1300-1310) and scan_videos (342-393) write inside a try;
\*   scan_videos has set the playlist before, and its handler returns [].
\*   destinations (987-991) and set_category (1014-1031) write after the
\*   change in memory, set_category after its stop; the exception goes to
\*   the handler that answers 500.
\*   toggle_shuffle (1058-1071) writes before its stop.
handler_with_store(fn, store) ==
    LET raised == redis_set(store) = "raised" IN
    [NoResponse EXCEPT
       !.fn = fn,
       !.ok = fn = "save_state" \/ ~raised,
       !.memory = fn # "save_state",
       !.stop = \/ fn = "set_category"
                \/ fn = "toggle_shuffle" /\ ~raised]

StoreRequests ==
    {[NoRequest EXCEPT !.fn = fn, !.store = st] : fn \in StoreFns, st \in Stores}

StatusRequests ==
    {[NoRequest EXCEPT !.fn = "status", !.destinations = d] : d \in DestLists}

Requests ==
    BitrateRequests \cup PathRequests \cup BuildRequests \cup ToggleRequests
        \cup StatusRequests \cup StoreRequests

CallSpecInit ==
    /\ LockInit /\ BuildInit /\ LogInit /\ ReadInit /\ SweepInit /\ TimeInit
    /\ ProgramInit(Budget)
    /\ request \in Requests
    /\ response = NoResponse

\* everything but the call and the manifests
OutsideCall ==
    <<MAX_RESTARTS, stop_requested, ffmpeg_process, ffmpeg_thread,
      procs, workers, handlers, lockvars, buildvars, logvars, readvars,
      sweepvars, timevars>>

Pending(fn) == request.fn = fn /\ response.fn = "none"

\* validate_bitrate(bitrate) is called
ValidateBitrate ==
    /\ Pending("validate_bitrate")
    /\ response' = [NoResponse EXCEPT !.fn = request.fn,
                                      !.ok = validate_bitrate(request.bitrate)]
    /\ UNCHANGED <<request, stream_state, files, OutsideCall>>

\* validate_and_get_video_path(selected_video) is called
ValidateAndGetVideoPath ==
    /\ Pending("validate_and_get_video_path")
    /\ response' =
         [NoResponse EXCEPT
            !.fn = request.fn,
            !.ok = validate_and_get_video_path(request.selected_video,
                                               request.exists)]
    /\ UNCHANGED <<request, stream_state, files, OutsideCall>>

\* a manifest without entries is left where mkstemp made it
keep_empty_playlist(fs, playlist_path) == fs \cup {playlist_path}

\* lines 500-502: os.remove(playlist_path) before the ValueError
remove_empty_playlist(fs, playlist_path) == fs \ {playlist_path}

\* the manifests the call registered (lines 457, 505, 518) or made and
\* removed again (lines 457, 500-502): their effect on stream_state and on
\* the files
RECURSIVE Manifests(_, _, _, _)
Manifests(created, removed, ss, fs) ==
    IF created > 0
    THEN LET made == create_playlist_file(ss, mkstemp(fs), fs)
         IN  Manifests(created - 1, removed, made.stream_state, made.files)
    ELSE [stream_state |-> ss,
          files |-> IF removed
                    THEN remove_empty_playlist(fs \cup {mkstemp(fs)},
                                               mkstemp(fs))
                    ELSE fs]

\* build_cmd is called
BuildCmd ==
    /\ Pending("build_cmd")
    /\ \E shuffled \in Orders :
         LET cmd == build_cmd(request.encoder, request.preset, request.bitrate,
                              request.destinations[1], request.selected_video,
                              Env(request, shuffled))
             after == Manifests(cmd.created, cmd.removed, stream_state, files)
         IN  /\ response' = cmd
             /\ stream_state' = after.stream_state
             /\ files' = after.files
    /\ UNCHANGED <<request, OutsideCall>>

\* POST /toggle while not running: the start branch
ToggleStartBranch ==
    /\ Pending("toggle")
    /\ \E shuffled \in Orders :
         LET started == toggle_start(request, shuffled)
             after == Manifests(started.created, started.removed,
                                stream_state, files)
         IN  /\ response' = started
             /\ stream_state' = after.stream_state
             /\ files' = after.files
    /\ UNCHANGED <<request, OutsideCall>>

\* GET /status: the count of enabled destinations
status ==
    /\ Pending("status")
    /\ response' = [NoResponse EXCEPT
                      !.fn = request.fn, !.ok = TRUE,
                      !.count = enabled_count(request.destinations)]
    /\ UNCHANGED <<request, stream_state, files, OutsideCall>>

\* a handler or function that writes to the store is called while a
\* stream is running
StoreCall ==
    /\ request.fn \in StoreFns /\ response.fn = "none"
    /\ response' = handler_with_store(request.fn, request.store)
    /\ UNCHANGED <<request, stream_state, files, OutsideCall>>

\* the next call of build_cmd, after the answer
NextCall ==
    /\ response.fn # "none"
    /\ request' \in BuildRequests
    /\ response' = NoResponse
    /\ UNCHANGED <<stream_state, files, OutsideCall>>

CallNext ==
    \/ ValidateBitrate
    \/ ValidateAndGetVideoPath
    \/ BuildCmd
    \/ ToggleStartBranch
    \/ status
    \/ StoreCall
    \/ NextCall

CallSpec == CallSpecInit /\ [][CallNext]_vars

(***************************************************************************)
(* The read loop of start_supervised, output line by output line.  A line  *)
(* is the set of the phrases it is made of; the supervisor tests           *)
(* `phrase in line_lower`.  One supervisor runs, nobody asks for a stop.   *)
(***************************************************************************)
\* MAX_TRANSIENT_ERRORS = 20
MAX_TRANSIENT_ERRORS == 20

\* the phrases one line is made of at most
MaxPhrases == 2

TRANSIENT == "invalid data found when processing input"

\* "error" stands for the words error, fail and unable
Phrases ==
    {TRANSIENT, "frame=", "no such file or directory", "permission denied",
     "unsupported codec", "invalid data", "processing input", "error"}

Lines == {line \in SUBSET Phrases : Cardinality(line) <= MaxPhrases}

\* phrase in line_lower: the line is made of the phrase, or of a phrase the
\* phrase is a part of
contains(line, phrase) ==
    \/ phrase \in line
    \/ phrase \in {"invalid data", "processing input"} /\ TRANSIENT \in line

\* line 696-697: "error", "fail", "invalid" or "unable" in the line
is_warning(line) == "error" \in line \/ contains(line, "invalid data")

Continue(count) == [count |-> count, error |-> "None", terminate |-> FALSE]

Terminate(count, error) ==
    [count |-> count, error |-> error, terminate |-> TRUE]

\* lines 674-726: what the loop does with a line, given the counter: the
\* counter after the line, the error it records, whether it terminates the
\* process and leaves the loop
read_line(line, count) ==
    IF contains(line, TRANSIENT)
    THEN IF count + 1 >= MAX_TRANSIENT_ERRORS
         THEN Terminate(count + 1, "Multiple consecutive decoding failures")
         ELSE Continue(count + 1)
    ELSE LET recovered == IF contains(line, "frame=") /\ count > 0
                          THEN 0 ELSE count
             after == IF is_warning(line) THEN 0 ELSE recovered
         IN  IF contains(line, "no such file or directory")
             THEN Terminate(after, "File not found")
             ELSE IF contains(line, "permission denied")
             THEN Terminate(after, "Permission denied")
             ELSE IF /\ \/ contains(line, "unsupported codec")
                        \/ contains(line, "invalid data")
                     /\ ~contains(line, "processing input")
             THEN Terminate(after, "Codec/format error")
             ELSE Continue(after)

\* what the read loop leaves alone
OutsideRead ==
    <<MAX_RESTARTS, stop_requested, ffmpeg_process, ffmpeg_thread, procs,
      workers, handlers, files, lockvars, buildvars, logvars, callvars,
      sweepvars, timevars>>

ReaderAt(pc) == reader.pc = pc

\* lines 638-662: the loop test, set_running(True) and Popen
ReadLaunch ==
    /\ ReaderAt("loop")
    /\ IF loop_condition(reader.restarts, MAX_RESTARTS, stop_requested)
       THEN /\ stream_state' = set_running(stream_state, TRUE)
            /\ reader' = [reader EXCEPT !.pc = "readline", !.alive = TRUE,
                                        !.instance_transients = 0,
                                        !.line = NoLine]
       ELSE /\ stream_state' = set_running(stream_state, FALSE)
            /\ reader' = [reader EXCEPT !.pc = "done", !.line = NoLine]
    /\ UNCHANGED OutsideRead

\* the transient lines the instance has written since its start or since
\* its last frame= line
transients_after(line, n) ==
    IF contains(line, TRANSIENT)
    THEN IF n < MAX_TRANSIENT_ERRORS THEN n + 1 ELSE n
    ELSE IF contains(line, "frame=") THEN 0 ELSE n

\* lines 669-726: readline() returns a line of the process
ReadLine ==
    /\ ReaderAt("readline")
    /\ reader.alive
    /\ \E line \in Lines :
         LET did == read_line(line, reader.transient_error_count) IN
         /\ reader' =
              [reader EXCEPT
                 !.pc = IF did.terminate THEN "wait" ELSE "readline",
                 !.alive = ~did.terminate,
                 !.transient_error_count = did.count,
                 !.instance_transients = transients_after(line, @),
                 !.line = line]
         /\ stream_state' = IF did.terminate
                            THEN set_error(stream_state, did.error)
                            ELSE stream_state
    /\ UNCHANGED OutsideRead

\* lines 669-671: the process has ended by itself; readline() returns ''
ReadEOF ==
    /\ ReaderAt("readline")
    /\ reader.alive
    /\ reader' = [reader EXCEPT !.pc = "wait", !.alive = FALSE,
                                !.line = NoLine]
    /\ UNCHANGED <<stream_state, OutsideRead>>

\* lines 732-760: wait(), set_running(False), the restart is counted; the
\* supervisor gives up with the budget spent, or sleeps and goes on
ReadRestart ==
    /\ ReaderAt("wait")
    /\ LET n == reader.restarts + 1
           counted == increment_restarts(set_running(stream_state, FALSE))
       IN  /\ reader' = [reader EXCEPT
                           !.restarts = n, !.line = NoLine,
                           !.pc = IF n >= MAX_RESTARTS THEN "done" ELSE "loop"]
           /\ stream_state' = IF n >= MAX_RESTARTS
                              THEN set_error(counted, "max_restarts")
                              ELSE counted
    /\ UNCHANGED OutsideRead

ReadNext == ReadLaunch \/ ReadLine \/ ReadEOF \/ ReadRestart

ReadSpec == Init /\ [][ReadNext]_vars

(***************************************************************************)
\* a step of the request context h
HandlerStep(h) == handlers'[h] # handlers[h]

\* a step of the supervisor worker w
WorkerStep(w) == w \in Wids /\ workers'[w] # workers[w]

\* C1: in every reachable state at most one ffmpeg process launched by the
\* application is alive.
C1_AtMostOneProcessAlive == Cardinality(LiveProcs) <= 1

\* C2: once a stop request has returned (the context holds its response
\* and no request has been handled since), no ffmpeg process is alive.
C2_StoppedMeansNoProcess ==
    \A h \in Handlers :
        handlers[h] = HandlerIdle("stopped") => LiveProcs = {}

\* C3: whenever toggle creates a supervisor worker, every worker created
\* before has terminated; and the stop branch resets the state only when
\* the worker it joined has terminated.
C3_StartAfterWorkersEnded ==
    [][/\ Len(workers') > Len(workers) => NoWorkerAlive
       /\ \A h \in Handlers :
            ToggleStopReset(h) =>
                (ffmpeg_thread # None => ~is_alive(ffmpeg_thread))]_vars

\* where toggle is in its stop branch, entered while the state was running
StopBranch == {"stop_flag", "stop_term", "stop_join", "stop_reset"}

\* C4: a request received while the stream is running is a no-op success:
\* while it is handled the running process keeps running, the state stays
\* running and no worker is created.
C4_StartWhileRunningIsNoOp ==
    [][\A h \in Handlers :
         (handlers[h].pc \in StopBranch /\ HandlerStep(h)) =>
             /\ LiveProcs' = LiveProcs
             /\ stream_state'.running = stream_state.running
             /\ workers' = workers]_vars

\* C5: a request issued while no stream is running returns at once with
\* running=false, leaves the state not running and creates no worker, so
\* launches no process.
C5_StopWhenStoppedIsNoOp ==
    [][\A h \in Handlers :
         (~stream_state.running /\ ToggleEnter(h)) =>
             /\ handlers'[h].pc = "idle"
             /\ handlers'[h].resp \in {"stopped", "rejected"}]_vars

\* where a worker is between the loop test and the end of an iteration
InIteration ==
    {"spawn", "readchk", "readline", "wait", "chkstop", "restart", "sleep"}

\* C6: a supervisor that has counted MAX_RESTARTS exits launches nothing
\* more: it is in no iteration of its loop; the step that counts the last
\* exit records an error and leaves the iteration, the loop test then ends
\* the loop, and the supervisor's last step leaves running false and starts
\* no process.  A worker created by a later start begins with a restart
\* count of zero and the delay at its floor.
C6_GivesUpAfterMaxRestarts ==
    /\ [](\A w \in Wids :
            workers[w].pc \in InIteration =>
                workers[w].restarts < MAX_RESTARTS)
    /\ [][/\ \A w \in Wids :
               /\ (WorkerStep(w)
                      /\ workers'[w].restarts > workers[w].restarts
                      /\ workers'[w].restarts >= MAX_RESTARTS) =>
                      /\ workers'[w].pc \in {"loop", "exit"}
                      /\ stream_state'.last_error # "None"
                      /\ procs' = procs
               /\ (workers[w].pc = "loop" /\ WorkerStep(w)
                      /\ workers[w].restarts >= MAX_RESTARTS) =>
                      /\ workers'[w].pc = "exit"
                      /\ procs' = procs
               /\ (workers[w].pc = "exit" /\ WorkerStep(w)) =>
                      /\ ~is_alive(w)'
                      /\ ~stream_state'.running
                      /\ procs' = procs
          /\ Len(workers') > Len(workers) =>
               /\ workers'[Len(workers')].restarts = 0
               /\ workers'[Len(workers')].backoff = BACKOFF_FLOOR * Scale
               /\ workers'[Len(workers')].pc = "loop"]_vars

\* C6, witness: the first worker gave up ("max_restarts" is still the
\* recorded error); a later start created a second worker, which runs a
\* process with a restart count of zero.
C6_Witness ==
    /\ Len(workers) = 2
    /\ ~is_alive(1)
    /\ stream_state.last_error = "max_restarts"
    /\ workers[2].pc = "readline" /\ workers[2].restarts = 0
    /\ PollIsNone

\* C7: a clean exit (return code 0) does not use up the restart budget,
\* resets the delay to its floor and is followed by the next start with no
\* delay.
C7_CleanExitRestartsAtOnce ==
    [][\A w \in Wids :
         (workers[w].pc = "restart" /\ workers[w].rc = RC_CLEAN
             /\ WorkerStep(w)) =>
             /\ workers'[w].pc = "loop"
             /\ workers'[w].backoff = BACKOFF_FLOOR * Scale]_vars

\* C8: the supervisor never waits forever on a silent, still-alive
\* process: when the process it reads from has stopped writing, some step
\* of a supervisor (the one that force-terminates it) is possible.
C8_StalledProcessIsTerminated ==
    \A w \in Wids :
        (workers[w].pc = "readline" /\ procs[ffmpeg_process].st = "hung") =>
            ENABLED (\E v \in WorkerIds : Supervisor(v))

Min(a, b) == IF a < b THEN a ELSE b

\* the delay of the k-th restart of a run (k = 0, 1, ...), in 1/Scale s:
\* min(2 * 1.5^k, 60)
ExpectedDelay(k) ==
    Min((BACKOFF_FLOOR * Scale * 3^k) \div 2^k, BACKOFF_CEILING * Scale)

\* C9 as claimed: every abnormal exit counted by the supervisor increments
\* the restart counter by one and schedules the restart after the current
\* delay.
C9_EveryAbnormalExitSchedulesRestart ==
    [][\A w \in Wids :
         (workers[w].pc = "restart" /\ workers[w].rc # RC_CLEAN
             /\ WorkerStep(w)) =>
             /\ workers'[w].restarts = workers[w].restarts + 1
             /\ workers'[w].pc = "sleep"]_vars

\* C9 as amended: every exit the supervisor counts increments its restart
\* counter by exactly one and, unless that exhausts the budget, schedules
\* the restart after the current delay, after which the delay is
\* min(1.5 * delay, 60).  The k-th delay of a run is min(2 * 1.5^k, 60): the
\* delays start at 2, never decrease and never exceed 60.
C9_BackoffSchedule ==
    /\ [](\A w \in Wids :
            workers[w].pc = "sleep" =>
                /\ workers[w].backoff = ExpectedDelay(workers[w].restarts - 1)
                /\ workers[w].backoff >= BACKOFF_FLOOR * Scale
                /\ workers[w].backoff <= BACKOFF_CEILING * Scale)
    /\ [][\A w \in Wids :
            /\ (workers[w].pc = "restart" /\ WorkerStep(w)) =>
                   /\ workers'[w].restarts = workers[w].restarts + 1
                   /\ workers'[w].backoff = workers[w].backoff
                   /\ workers'[w].pc =
                        IF workers'[w].restarts < MAX_RESTARTS
                        THEN "sleep" ELSE "exit"
            /\ (workers[w].pc = "sleep" /\ WorkerStep(w)) =>
                   /\ workers'[w].restarts = workers[w].restarts
                   /\ workers'[w].backoff >= workers[w].backoff
                   /\ 2 * workers'[w].backoff =
                        Min(3 * workers[w].backoff,
                            2 * BACKOFF_CEILING * Scale)
                   /\ workers'[w].pc = "loop"]_vars

\* C9, witness: a worker sleeps the delay of its eleventh restart, which
\* is the ceiling.
C9_Witness ==
    \E w \in Wids :
        /\ workers[w].pc = "sleep"
        /\ workers[w].restarts = 11
        /\ workers[w].backoff = BACKOFF_CEILING * Scale

\* C10: while the stop flag is set, no supervisor's restart count and not
\* the restart count of the stream state changes.
C10_StopNeverCountsRestart ==
    [][stop_requested =>
         /\ stream_state'.restarts = stream_state.restarts
         /\ \A w \in Wids :
              (is_alive(w) /\ is_alive(w)') =>
                  workers'[w].restarts = workers[w].restarts]_vars

\* C11: a status snapshot, taken at any moment between the statements of
\* set_running, reset, increment_restarts and set_error of other threads,
\* never holds running = TRUE together with start_time = None; and whenever
\* the lock is free, running implies that start_time is set.
C11_SnapshotNeverTorn ==
    /\ snapshot.running => snapshot.start_time # None
    /\ lock = Unlocked =>
           (stream_state.running => stream_state.start_time # None)

\* C11, witness: a snapshot of a running stream has been taken, and a
\* thread that holds the lock is now between line 113 and line 115 of
\* set_running(True): the record itself is torn while the other thread
\* waits for the lock.
C11_Witness ==
    /\ snapshot.taken /\ snapshot.running
    /\ stream_state.running /\ stream_state.start_time = None
    /\ \E t \in Callers : InMethod(t, "set_running", 115)

\* C12: the supervisor stays responsive to the stop flag: with the flag set
\* and no request being handled any more (nothing else is going to end the
\* process), a live supervisor can take its next step by itself, whether
\* it reads the output, waits for the exit or sleeps its delay.
C12_WorkerResponsiveToStop ==
    \A w \in Wids :
        (/\ stop_requested
         /\ is_alive(w)
         /\ \A h \in Handlers : handlers[h].pc = "idle") =>
            ENABLED Supervisor(w)

\* C13: a playlist manifest is never removed while the supervisor whose
\* command reads it is alive: the manifest of every live worker is on disk.
C13_ManifestOfLiveWorkerExists ==
    \A w \in Wids : is_alive(w) => w \in files

\* C14: a start request that was rejected has changed nothing: the
\* remembered form values and the persisted ones are those from before the
\* request.
C14_RejectedStartChangesNothing ==
    (builder.line = 0 /\ builder.resp = "rejected") =>
        /\ DEFAULTS = builder.before
        /\ form_settings = builder.before

\* a step of worker w in which the run loop caught an exception: Popen
\* raised, or readline() raised while the process had not ended
RunLoopException(w) ==
    \/ SupSpawnFails(w)
    \/ SupReadError(w) /\ ~SupReadEOF(w)

\* C15: an exception caught in the run loop is recorded as last_error and,
\* unless stop was requested, handled as an abnormal exit: the worker's
\* restart count grows by one and the worker goes to the backoff delay while
\* the budget lasts, to the loop test otherwise.
C15_ExceptionIsAbnormalExit ==
    [][\A w \in Wids :
         RunLoopException(w) =>
             /\ stream_state'.last_error = "exception"
             /\ ~stop_requested =>
                   /\ workers'[w].restarts = workers[w].restarts + 1
                   /\ workers'[w].backoff = workers[w].backoff
                   /\ workers'[w].pc =
                        IF workers'[w].restarts < MAX_RESTARTS
                        THEN "sleep" ELSE "loop"]_vars

\* the lines of the process the worker has read so far
LinesRead == emitted - Len(pipe)

\* the process lines of a sequence stand in the order of their emission
InEmissionOrder(buf) ==
    \A i, j \in DOMAIN buf :
        (i < j /\ buf[i] # SystemLine /\ buf[j] # SystemLine) => buf[i] < buf[j]

\* every process line the worker read after a line of buf is in buf too
OnlyOldestLost(buf, read) ==
    \A i \in DOMAIN buf :
        buf[i] # SystemLine =>
            \A k \in (buf[i] + 1)..read : \E j \in DOMAIN buf : buf[j] = k

C17_BuildUsesOneSnapshot ==
    (builder.line = 0 /\ builder.resp = "started") =>
        /\ builder.shuffle_932 = builder.shuffle_582
        /\ builder.videos_933 = builder.videos_874
        /\ builder.shuffle_582 =>
               /\ builder.shuffle_464
               /\ builder.videos_452 = builder.videos_874

\* C18: validate_bitrate accepts a string exactly when the string itself
\* is one or more digits followed by at most one k; the empty string, a
\* string without digits, one with blanks around it and one with anything
\* after the k are rejected.
C18_BitrateAcceptedIffPattern ==
    response.fn = "validate_bitrate" =>
        (response.ok <=> matches_bitrate_pattern(request.bitrate))

\* what one component of a path does to the depth below the root
component_step(comp, depth) ==
    IF comp = <<>> \/ comp = <<".">> THEN depth
    ELSE IF comp = <<".", ".">> THEN depth - 1
    ELSE depth + 1

\* the depth below the root at which the path ends when its components are
\* followed from position i on; -1 once it has stepped above the root
RECURSIVE normalized_depth(_, _, _, _)
normalized_depth(path, i, comp, depth) ==
    IF depth < 0 THEN -1
    ELSE IF i > Len(path) THEN component_step(comp, depth)
    ELSE IF path[i] = "/"
    THEN normalized_depth(path, i + 1, <<>>, component_step(comp, depth))
    ELSE normalized_depth(path, i + 1, Append(comp, path[i]), depth)

\* the normalized absolute form of the path lies outside the video root
OutsideRoot(path) ==
    Head(path) = "/" \/ normalized_depth(path, 1, <<>>, 0) < 0

\* C19: a path whose normalized form lies outside the video root is
\* rejected, and a relative path that stays inside the root, at whatever
\* depth, and names an existing file with a video extension is accepted.
C19_PathConfinedIffAccepted ==
    response.fn = "validate_and_get_video_path" =>
        /\ OutsideRoot(request.selected_video) => ~response.ok
        /\ ( /\ ~OutsideRoot(request.selected_video)
             /\ request.exists
             /\ has_video_extension(request.selected_video) ) => response.ok

\* C20: a stream started with shuffle mode off over the videos a.mp4, b.mp4
\* and c.mp4 reads a manifest that lists the three, once each, in the order
\* of their names.
C20_UnshuffledManifestInNameOrder ==
    (response.fn = "build_cmd" /\ ~request.shuffle_mode) =>
        /\ response.input = "concat"
        /\ response.manifest = <<VideoA, VideoB, VideoC>>

\* a call that wrote a manifest with shuffle mode on
ShuffledManifest ==
    response.fn \in {"build_cmd", "toggle"} /\ response.ok
        /\ request.shuffle_mode /\ response.input = "concat"

\* C21: with shuffle mode on and repeat count r the manifest has r times n
\* entries for the n valid videos, and it is one order of those videos
\* written r times over: entry i is entry i - n for every i above n.
C21_ShuffledOnceRepeated ==
    ShuffledManifest =>
        LET n == Cardinality(request.readable) IN
        /\ Len(response.manifest) = request.repeat * n
        /\ \A v \in request.readable :
             \E i \in 1..n : response.manifest[i] = v
        /\ \A i \in (n + 1)..Len(response.manifest) :
             response.manifest[i] = response.manifest[i - n]

\* how many of the stored destinations satisfy the condition
CountOf(dests, Eligible(_)) ==
    Cardinality({i \in DOMAIN dests : Eligible(dests[i])})

\* what the start branch and status make of the stored destinations when
\* Eligible says which of them can be sent to
DestinationsTreatedAs(Eligible(_)) ==
    LET n == CountOf(request.destinations, Eligible) IN
    /\ response.fn = "status" => response.count = n
    /\ response.fn = "toggle" =>
         /\ n = 0 => ~response.ok
         /\ response.ok => response.count = n

\* C22 as stated: a destination is eligible exactly when it is enabled
\* and its stream key is not empty; a start without an eligible destination
\* is rejected and status counts the eligible destinations.
C22_EligibleIffEnabledWithKey ==
    DestinationsTreatedAs(LAMBDA d : d.enabled /\ d.key # "")

\* C22 as amended: a destination is eligible exactly when it is enabled
\* and its stream key and its URL are not empty; a start without an
\* eligible destination is rejected, and an accepted start and status
\* report the number of eligible destinations.
C22_EligibleIffEnabledWithKeyAndUrl ==
    DestinationsTreatedAs(LAMBDA d : d.enabled /\ d.key # "" /\ d.url # "")

\* a start was accepted for two stored destinations of which one is enabled
\* and has a key but no URL: one destination is reported
C22_Witness ==
    /\ response.fn = "toggle" /\ response.ok
    /\ Len(request.destinations) = 2
    /\ response.count = 1
    /\ \E i \in DOMAIN request.destinations :
         LET d == request.destinations[i] IN
         d.enabled /\ d.key # "" /\ d.url = ""

\* C23: the command of an accepted start has one output for each eligible
\* destination, in their order, as many as the count reported to the
\* caller, and an output to an rtmp or rtmps URL has another mux format
\* than an output to an srt or udp URL.
C23_OneOutputPerDestination ==
    (response.fn = "toggle" /\ response.ok) =>
        LET enabled == enabled_destinations(request.destinations)
            scheme(i) == url_scheme(response.outputs[i].url.url)
        IN  /\ Len(response.outputs) = response.count
            /\ Len(response.outputs) = Len(enabled)
            /\ \A i \in DOMAIN response.outputs :
                 i \in DOMAIN enabled /\ response.outputs[i].url = enabled[i]
            /\ \A i, j \in DOMAIN response.outputs :
                 (scheme(i) \in {"rtmp", "rtmps"} /\ scheme(j) \in {"srt", "udp"})
                     => response.outputs[i].format # response.outputs[j].format

\* C24: with the key-value store absent or failing, the handlers and
\* functions that write to it return the same result, make the same change
\* in memory and stop the running stream just as with the store present.
C24_StoreIsNeverHardFailure ==
    response.fn \in StoreFns =>
        LET with_store == handler_with_store(request.fn, "present") IN
        /\ response.ok = with_store.ok
        /\ response.memory = with_store.memory
        /\ response.stop = with_store.stop

\* C25: a call in which no entry of the playlist passed the existence and
\* readability checks fails; the manifest file it had made is gone again,
\* and the registered current manifest and the list of manifests to delete
\* are what they were before the call.
C25_EmptyPlaylistLeavesNoTrace ==
    [][(response' # response /\ response'.removed) =>
          /\ ~response'.ok
          /\ response'.created = 0
          /\ files' = files
          /\ stream_state'.current_playlist_file =
                 stream_state.current_playlist_file
          /\ stream_state'.old_playlist_files = stream_state.old_playlist_files
      ]_vars

\* a call failed for want of readable videos while the manifest of an
\* earlier call is registered and on disk
C25_Witness ==
    /\ response.fn = "build_cmd" /\ response.removed /\ ~response.ok
    /\ request.shuffle_mode /\ request.readable = {}
    /\ stream_state.current_playlist_file # None
    /\ stream_state.current_playlist_file \in files

\* the presets the encoders know
RecognizedPresets == {"medium"}

\* C26: a preset that is not one of the encoder's presets is replaced by the
\* default in the command and does not make the start fail: the command of
\* a start never carries an unrecognized preset, and a start that is
\* accepted with the default preset is accepted with any other.
C26_UnknownPresetReplaced ==
    response.fn = "toggle" =>
        /\ response.ok =>
             (response.preset = "none" \/ response.preset \in RecognizedPresets)
        /\ response.ok =
             toggle_start([request EXCEPT !.preset = "medium"],
                          <<VideoA, VideoB, VideoC>>).ok

\* C27: an accepted start with input type srt and a valid input URL hands
\* the supervisor a command that reads from that URL: no manifest is
\* created and no local video is the input.
C27_UrlInputReadsFromUrl ==
    (response.fn = "toggle" /\ response.ok /\ request.input_type = "srt") =>
        /\ response.input = request.srt_url
        /\ response.created = 0
        /\ response.video = <<>>

\* a step of thread t inside a StreamState method
MethodStep(t, op) == callers[t].op = op /\ callers'[t] # callers[t]

\* C28: every write to a StreamState field happens inside a StreamState
\* method while the lock is held: each step that changes the stream state
\* is a step of a thread that is inside a method and holds the lock.
C28_WritesOnlyUnderLock ==
    [][stream_state' # stream_state =>
          \E t \in Callers :
              lock = t /\ \E op \in Methods : MethodStep(t, op)]_vars

\* every manifest on disk is known: it is the current one or a queued one,
\* or a set_playlist_file is about to install it, or a reset has collected
\* it and has not returned yet
NoManifestForgotten ==
    \A f \in files :
        \/ f = stream_state.current_playlist_file
        \/ f \in stream_state.old_playlist_files
        \/ \E t \in Callers :
              \/ f \in callers[t].files_to_cleanup
              \/ callers[t].op = "set_playlist_file" /\
                     f = callers[t].playlist_file

LeavesLoop(w) ==
    /\ w \in Wids
    /\ workers[w].pc \in {"loop", "chkstop", "restart"}
    /\ workers'[w].pc = "exit"

\* C30: a change of the shuffle setting restarts a running stream: the
\* supervisor launches a new process.  Where the only requests are starts
\* and changes of the shuffle setting, a supervisor therefore leaves its
\* loop only with its restart budget spent, never because of the request.
C30_ShuffleChangeRestartsStream ==
    [][\A w \in WorkerIds :
          LeavesLoop(w) => workers'[w].restarts >= MAX_RESTARTS]_vars

\* a step in which worker w launches a process (Popen, line 650, returns)
Launches(w) ==
    /\ WorkerAt(w, "spawn")
    /\ workers'[w].pc = "readchk"

\* C31: a switch of the category stops a running stream: the supervisor
\* launches no further process.  Where only category requests set the stop
\* flag, no process is launched while the flag of a request that has been
\* answered is standing (a new start clears it).
C31_CategorySwitchStopsStream ==
    [][(stop_requested /\ \A h \in Handlers : HandlerAt(h, "idle")) =>
          \A w \in WorkerIds : ~Launches(w)]_vars

\* C32: after any number of skips the supervisor still launches a new
\* process.  Where processes end only by a skip and nothing raises, the
\* supervisor therefore never leaves its loop.
C32_SkipsNeverEndStream ==
    [][\A w \in WorkerIds : ~LeavesLoop(w)]_vars

\* a step in which the supervisor reads a line of the process
ReadsLine == ReaderAt("readline") /\ reader'.line # NoLine

\* the errors that correspond to the phrases of a line
corresponding_errors(line) ==
    (IF contains(line, "no such file or directory")
     THEN {"File not found"} ELSE {}) \cup
    (IF contains(line, "permission denied")
     THEN {"Permission denied"} ELSE {}) \cup
    (IF /\ \/ contains(line, "unsupported codec")
           \/ contains(line, "invalid data")
        /\ ~contains(line, "processing input")
     THEN {"Codec/format error"} ELSE {})

\* C33: on a line with 'no such file or directory', 'permission denied',
\* 'unsupported codec', or 'invalid data' without 'processing input', the
\* supervisor records a corresponding error, terminates the process and
\* goes on to count the restart; and a line with 'invalid data found when
\* processing input' and none of those ends the process only as the 20th
\* such line of that process in a row.
C33_FatalLinesTerminateTransientLinesDoNot ==
    [][ReadsLine =>
         LET line == reader'.line IN
         /\ corresponding_errors(line) # {} =>
               /\ ~reader'.alive
               /\ reader'.pc = "wait"
               /\ stream_state'.last_error \in corresponding_errors(line)
         /\ (/\ contains(line, TRANSIENT)
             /\ corresponding_errors(line) = {}
             /\ ~reader'.alive) =>
               reader'.instance_transients >= MAX_TRANSIENT_ERRORS]_vars

\* C34: every process starts with a transient error count of zero, and a
\* process is ended for 'Multiple consecutive decoding failures' only when
\* that process has written 20 transient lines since its start or since
\* its last 'frame=' line.
C34_TransientCountIsPerInstance ==
    [][/\ (ReaderAt("loop") /\ reader'.alive) =>
            reader'.transient_error_count = 0
       /\ (/\ ReadsLine
           /\ ~reader'.alive
           /\ stream_state'.last_error =
                 "Multiple consecutive decoding failures") =>
            reader'.instance_transients >= MAX_TRANSIENT_ERRORS]_vars

\* C35: throughout a supervisor run the restart count of the stream state
\* equals the supervisor's own counter, the one compared with MAX_RESTARTS:
\* it is zero when a fresh supervisor launches its first process, and it
\* never exceeds MAX_RESTARTS.
C35_StateRestartsEqualSupervisorCount ==
    \A w \in Wids :
        is_alive(w) =>
            /\ stream_state.restarts = workers[w].restarts
            /\ stream_state.restarts <= MAX_RESTARTS

\* C36: the periodic cleanup thread started at import keeps running for
\* the lifetime of the application: after any sequence of start and stop
\* requests it has not left its loop.
C36_CleanupThreadStaysAlive == playlist_cleanup_thread # "done"

\* C37: no manifest is lost from tracking.  Every manifest on disk is the
\* current one or a queued one, or is in the hands of a set_playlist_file,
\* cleanup or reset that has not returned yet; with the lock free the
\* current manifest is not in the queue; and a manifest that
\* cleanup_old_playlist_files failed to delete is in the queue after the
\* step.
C37_NoManifestLostFromTracking ==
    [][/\ NoManifestForgotten'
       /\ (lock' = Unlocked /\
              stream_state'.current_playlist_file # None) =>
             stream_state'.current_playlist_file \notin
                 stream_state'.old_playlist_files
       /\ \A t \in Callers :
             (/\ InMethod(t, "cleanup_old_playlist_files", 196)
              /\ callers'[t].op = "cleanup_old_playlist_files") =>
                 \A f \in (callers[t].files_to_cleanup \
                              callers'[t].files_to_cleanup) \cap files' :
                     f \in stream_state'.old_playlist_files]_vars

\* C38: the uptime reported by successive status snapshots never
\* decreases, whatever the supervisors, reset and the start and stop
\* requests do in between.
C38_ReportedUptimeNeverDecreases ==
    [][clock'.current_uptime >= clock.current_uptime]_vars

====
